---- MODULE Spec2Model ----
(***************************************************************************)
(* The tag-routed dataflow engine of projects/dataflow-framework           *)
(* (abstraction-level-8): build_routing, run_router, the BaseProcessor     *)
(* wrapper and the MetricsStore, driven by main.run in single-file mode     *)
(* (Spec) and by the folder monitor of watch mode (WatchSpec).             *)
(*                                                                         *)
(* A line is a sequence of tokens.  A trace id "line_<n>" is the number n, *)
(* and the empty id "" is 0.  A file name is a sequence of tokens: the name *)
(* it arrived with, then the suffixes appended to it.  Wall-clock times    *)
(* are not modelled; a file's mtime is the number of its arrival.          *)
(***************************************************************************)
EXTENDS Naturals, Integers, Sequences, FiniteSets, Bags, TLC

\* ------------------------------------------------------------------ bounds
\* The longest input file, in lines.
MaxLines == 2
\* The largest max_hops run_router is called with (its default is 1000); watch
\* mode runs with the default, which is this bound.
MaxHops == 4
\* The capacities the MetricsStore rings are built with (defaults 1000 and 100).
MaxTraces == 2
MaxErrors == 2
\* Watch mode: the files that arrive in unprocessed/, the files the monitor
\* claims, and the times the process is started.
MaxFiles == 2
MaxClaims == 3
MaxRuns == 2
\* How many calls of the store each of its client threads makes.
MaxCalls == 2

\* ----------------------------------------------------------------- helpers
Last(s) == s[Len(s)]

RECURSIVE SeqToBag(_)
SeqToBag(s) ==
  IF s = <<>> THEN EmptyBag ELSE SetToBag({Head(s)}) (+) SeqToBag(Tail(s))

RECURSIVE SelectLines(_, _)
\* The lines of the envelopes of s whose tag is t, in order.
SelectLines(s, t) ==
  IF s = <<>> THEN <<>>
  ELSE (IF Head(s).tag = t THEN <<Head(s).line>> ELSE <<>>) \o SelectLines(Tail(s), t)

RECURSIVE CountProcessor(_, _)
\* How many entries of the error ring s were recorded under processor tag p.
CountProcessor(s, p) ==
  IF s = <<>> THEN 0
  ELSE (IF Head(s).processor = p THEN 1 ELSE 0) + CountProcessor(Tail(s), p)

\* ------------------------------------------------------------------- lines
\* str.upper() on one token.
UpperToken(c) == CASE c = "a" -> "A" [] c = "b" -> "B" [] OTHER -> c

to_uppercase(line) == [i \in 1..Len(line) |-> UpperToken(line[i])]

RECURSIVE LStrip(_)
LStrip(s) == IF s # <<>> /\ Head(s) = " " THEN LStrip(Tail(s)) ELSE s

RECURSIVE RStrip(_)
RStrip(s) ==
  IF s # <<>> /\ Last(s) = " " THEN RStrip(SubSeq(s, 1, Len(s) - 1)) ELSE s

\* str.strip()
Strip(s) == RStrip(LStrip(s))

RECURSIVE SplitOn(_, _, _)
\* str.split(delimiter): the parts of s between the delimiters; cur is the part
\* being read.  An empty line gives one empty part.
SplitOn(s, delimiter, cur) ==
  IF s = <<>> THEN <<cur>>
  ELSE IF Head(s) = delimiter THEN <<cur>> \o SplitOn(Tail(s), delimiter, <<>>)
  ELSE SplitOn(Tail(s), delimiter, Append(cur, Head(s)))

\* The lines an input file may hold.
InputLines == { <<"a">>, <<"b", ",", " ", "a">> }

RECURSIVE SeqsUpTo(_, _)
SeqsUpTo(S, n) ==
  IF n = 0 THEN { <<>> }
  ELSE LET shorter == SeqsUpTo(S, n - 1)
       IN  shorter \cup { Append(s, x) : s \in shorter, x \in S }

\* -------------------------------------------------------------- processors
\* What a processor yields for one line: a pair (tags, line).  islist is FALSE
\* when the tags value is a str instead of a list.
ListPair(tags, line) == [islist |-> TRUE, tags |-> tags, line |-> line]

\* A processor's reply to one call: the pairs its process() produces, whether
\* it raises after them, and its counter afterwards.
Reply(pairs, raises, count) == [pairs |-> pairs, raises |-> raises, count |-> count]

\* processors.output.Terminal
process_Terminal(line, count) == Reply(<<ListPair(<<"end">>, line)>>, FALSE, count)

\* processors.base.LineCounter, instantiated without arguments (tag "default")
process_LineCounter(line, count) ==
  Reply(<<ListPair(<<"default">>, <<ToString(count + 1), ":", " ">> \o line)>>,
        FALSE, count + 1)

\* processors.upper.upper_processor = streamify(to_uppercase, tag="uppercase")
process_upper(line, count) ==
  Reply(<<ListPair(<<"uppercase">>, to_uppercase(line))>>, FALSE, count)

\* processors.fanout.SplitLines, instantiated without arguments
process_SplitLines(line, count) ==
  LET parts == SplitOn(line, ",", <<>>)
  IN  Reply([i \in 1..Len(parts) |-> ListPair(<<"split">>, Strip(parts[i]))],
            FALSE, count)

\* Other callables of type ProcessorFn a config may name: what each yields for
\* a line (the line itself under the given tags), and whether it then raises.
UserProcessors ==
  [ Forward     |-> [tags |-> << <<"next">> >>,           islist |-> TRUE,  raises |-> FALSE],
    Fan         |-> [tags |-> << <<"end", "next">> >>,    islist |-> TRUE,  raises |-> FALSE],
    Both        |-> [tags |-> << <<"c1", "c2">> >>,       islist |-> TRUE,  raises |-> FALSE],
    DualEnd     |-> [tags |-> << <<"end", "end">> >>,     islist |-> TRUE,  raises |-> FALSE],
    Drop        |-> [tags |-> << >>,                      islist |-> TRUE,  raises |-> FALSE],
    StrTags     |-> [tags |-> << <<"end">> >>,            islist |-> FALSE, raises |-> FALSE],
    EmptyTags   |-> [tags |-> << <<"end">>, << >> >>,     islist |-> TRUE,  raises |-> FALSE],
    UnknownEmit |-> [tags |-> << <<"end", "nowhere">> >>, islist |-> TRUE,  raises |-> FALSE],
    Raiser      |-> [tags |-> << >>,                      islist |-> TRUE,  raises |-> TRUE],
    LateRaiser  |-> [tags |-> << <<"end">> >>,            islist |-> TRUE,  raises |-> TRUE] ]

process_User(type, line, count) ==
  LET u == UserProcessors[type]
  IN  Reply([i \in 1..Len(u.tags) |->
               [islist |-> u.islist, tags |-> u.tags[i], line |-> line]],
            u.raises, count)

\* The identifiers a config's `type` may name.
ProcessorTypes ==
  {"Terminal", "LineCounter", "upper_processor", "SplitLines"} \cup DOMAIN UserProcessors

\* process(): the reply of a processor of the given type to one line.
process(type, line, count) ==
  CASE type = "Terminal"        -> process_Terminal(line, count)
    [] type = "LineCounter"     -> process_LineCounter(line, count)
    [] type = "upper_processor" -> process_upper(line, count)
    [] type = "SplitLines"      -> process_SplitLines(line, count)
    [] OTHER                    -> process_User(type, line, count)

\* isinstance(obj, type): load_function instantiates it once per node entry.
\* The others are module-level instances, the same object for every node.
IsClass(type) == type \notin {"upper_processor", "Forward"}

\* Subclasses of BaseProcessor: called through BaseProcessor.__call__, and
\* tagged by ProcessorNode.  The others are plain callables.
IsBaseProcessor(type) == type \notin {"SplitLines", "StrTags", "UnknownEmit", "LateRaiser"}

\* The processor_tag BaseProcessor.__init__ and the subclass constructors leave.
InitialProcessorTag(type) ==
  CASE type = "LineCounter"     -> "LineCounter_default"
    [] type = "upper_processor" -> "Streamify_to_uppercase"
    [] type = "Forward"         -> "Streamify_forward"
    [] OTHER                    -> type

\* ------------------------------------------------------------ MetricsStore
\* The store is one record: metrics (tag -> ProcessorMetrics), the rings traces
\* and errors, trace_enabled, the in-flight map active_traces (id -> trace
\* info) and line_counter.

\* dataclass ProcessorMetrics, as constructed by the defaultdict
ProcessorMetrics == [count |-> 0, total_time |-> 0, errors |-> 0]

\* self.metrics[tag] of the defaultdict, read
MetricsOf(ms, tag) ==
  IF tag \in DOMAIN ms.metrics THEN ms.metrics[tag] ELSE ProcessorMetrics

\* self.metrics[tag] of the defaultdict, written
WithMetrics(ms, tag, m) ==
  [ms EXCEPT !.metrics =
     [t \in (DOMAIN ms.metrics) \cup {tag} |-> IF t = tag THEN m ELSE ms.metrics[t]]]

\* A ring that, once full, takes nothing more.
deque_append_keep(d, x, maxlen) ==
  IF Len(d) >= maxlen THEN d ELSE Append(d, x)

\* deque(maxlen=maxlen).append(x): a full ring drops its oldest element
deque_append(d, x, maxlen) ==
  IF maxlen = 0 THEN <<>>
  ELSE IF Len(d) >= maxlen THEN Append(Tail(d), x)
  ELSE Append(d, x)

\* current_file = None
NoFile == <<>>

\* deque(maxlen=200) of the processed file names
LastProcessedMaxlen == 200

\* MetricsStore.__init__
MetricsStore(max_traces, max_errors, enabled) ==
  [ max_traces    |-> max_traces,
    max_errors    |-> max_errors,
    metrics       |-> [t \in {} |-> ProcessorMetrics],
    traces        |-> <<>>,
    errors        |-> <<>>,
    trace_enabled |-> enabled,
    active_traces |-> [i \in {} |-> 0],
    line_counter  |-> 0,
    current_file  |-> NoFile,
    last_processed_files |-> <<>> ]

\* MetricsStore.start_trace: the store afterwards and the id returned
start_trace(ms, line_content) ==
  IF ~ms.trace_enabled THEN [ms |-> ms, line_id |-> 0]
  ELSE LET id   == ms.line_counter + 1
           info == [original_content |-> line_content, steps |-> <<>>,
                    path |-> <<>>, all_tags |-> <<>>]
       IN  [ms |-> [ms EXCEPT !.line_counter = id,
                              !.active_traces =
                                 [i \in (DOMAIN ms.active_traces) \cup {id} |->
                                    IF i = id THEN info ELSE ms.active_traces[i]]],
            line_id |-> id]

\* MetricsStore.add_trace_step
add_trace_step(ms, line_id, processor_tag, input_content, output_content, output_tags) ==
  IF ~ms.trace_enabled \/ line_id = 0 THEN ms
  ELSE IF line_id \notin DOMAIN ms.active_traces THEN ms
  ELSE LET step == [processor |-> processor_tag, input_content |-> input_content,
                    output_content |-> output_content, output_tags |-> output_tags]
           old  == ms.active_traces[line_id]
       IN  [ms EXCEPT !.active_traces[line_id] =
              [old EXCEPT !.steps = Append(old.steps, step),
                          !.path = Append(old.path, processor_tag),
                          !.all_tags = old.all_tags \o output_tags]]

\* A complete_trace that leaves the trace in the in-flight map.
complete_trace_keep(ms, line_id, final_content) ==
  IF ~ms.trace_enabled \/ line_id = 0 THEN ms
  ELSE IF line_id \notin DOMAIN ms.active_traces THEN ms
  ELSE LET info  == ms.active_traces[line_id]
           entry == [line_id |-> line_id,
                     original_content |-> info.original_content,
                     final_content |-> final_content,
                     steps |-> info.steps,
                     path |-> info.path,
                     all_tags |-> {info.all_tags[i] : i \in 1..Len(info.all_tags)}]
       IN  [ms EXCEPT !.traces = deque_append(ms.traces, entry, ms.max_traces)]

\* MetricsStore.complete_trace
complete_trace(ms, line_id, final_content) ==
  IF ~ms.trace_enabled \/ line_id = 0 THEN ms
  ELSE IF line_id \notin DOMAIN ms.active_traces THEN ms
  ELSE LET info  == ms.active_traces[line_id]
           entry == [line_id |-> line_id,
                     original_content |-> info.original_content,
                     final_content |-> final_content,
                     steps |-> info.steps,
                     path |-> info.path,
                     all_tags |-> {info.all_tags[i] : i \in 1..Len(info.all_tags)}]
       IN  [ms EXCEPT !.active_traces =
                         [i \in (DOMAIN ms.active_traces) \ {line_id} |-> ms.active_traces[i]],
                      !.traces = deque_append(ms.traces, entry, ms.max_traces)]

\* time.time() - start_time of BaseProcessor.__call__: what one call takes, in
\* ticks of the clock.
ExecutionTime == 1

\* A recording that keeps only the time of the latest execution.
record_processor_metrics_latest(ms, processor_tag, execution_time, success) ==
  LET m == MetricsOf(ms, processor_tag)
  IN  WithMetrics(ms, processor_tag,
        [m EXCEPT !.count = m.count + 1,
                  !.total_time = execution_time,
                  !.errors = IF success THEN m.errors ELSE m.errors + 1])

\* MetricsStore.record_processor_metrics
record_processor_metrics(ms, processor_tag, execution_time, success) ==
  LET m == MetricsOf(ms, processor_tag)
  IN  WithMetrics(ms, processor_tag,
        [m EXCEPT !.count = m.count + 1,
                  !.total_time = m.total_time + execution_time,
                  !.errors = IF success THEN m.errors ELSE m.errors + 1])

\* MetricsStore.record_error.  `error` names the exception; line_content is
\* NoLine when the caller passes None.
NoLine == <<"<None>">>

record_error(ms, processor_tag, error, line_content) ==
  LET entry == [processor |-> processor_tag, message |-> error,
                line_content |-> line_content]
      m     == MetricsOf(ms, processor_tag)
  IN  WithMetrics([ms EXCEPT !.errors = deque_append(ms.errors, entry, ms.max_errors)],
                  processor_tag, [m EXCEPT !.errors = m.errors + 1])

\* MetricsStore.get_stats: a copy of every tag's ProcessorMetrics
get_stats(ms) == [tag \in DOMAIN ms.metrics |-> ms.metrics[tag]]

\* str.lower() on one token, and on a line.
LowerToken(c) == CASE c = "A" -> "a" [] c = "B" -> "b" [] OTHER -> c

lower(line) == [i \in 1..Len(line) |-> LowerToken(line[i])]

\* sub in s, for two str
StrIn(sub, s) ==
  \E i \in 0..(Len(s) - Len(sub)) : SubSeq(s, i + 1, i + Len(sub)) = sub

\* x in list
ListIn(x, list) == \E i \in 1..Len(list) : list[i] = x

\* s[k:] of a list, k negative counting from the end
SliceFrom(s, k) ==
  LET start == IF k < 0 THEN (IF Len(s) + k < 0 THEN 0 ELSE Len(s) + k)
               ELSE (IF k > Len(s) THEN Len(s) ELSE k)
  IN  SubSeq(s, start + 1, Len(s))

\* dataclasses.asdict of a TraceEntry: a dict of the same fields, the steps
\* dicts of theirs
asdict_trace(t) ==
  [ line_id |-> t.line_id, original_content |-> t.original_content,
    final_content |-> t.final_content,
    steps |-> [i \in 1..Len(t.steps) |->
                 [processor |-> t.steps[i].processor,
                  input_content |-> t.steps[i].input_content,
                  output_content |-> t.steps[i].output_content,
                  output_tags |-> t.steps[i].output_tags]],
    path |-> t.path, all_tags |-> t.all_tags ]

\* A get_traces that cuts the ring to its last `limit` traces before filtering.
get_traces_limit_first(ms, limit, search, processor_filter, tag_filter) ==
  LET search_lower == lower(search)
      BySearch(t) ==
        \/ StrIn(search_lower, lower(t.original_content))
        \/ StrIn(search_lower, lower(t.final_content))
        \/ \E i \in 1..Len(t.steps) :
              \/ StrIn(search_lower, lower(t.steps[i].input_content))
              \/ StrIn(search_lower, lower(t.steps[i].output_content))
      ByProcessor(t) == ListIn(processor_filter, t.path)
      ByTag(t) == tag_filter \in t.all_tags
      t0 == IF ms.traces # <<>> THEN SliceFrom(ms.traces, 0 - limit) ELSE <<>>
      t1 == IF search # <<>> THEN SelectSeq(t0, BySearch) ELSE t0
      t2 == IF processor_filter # "" THEN SelectSeq(t1, ByProcessor) ELSE t1
      t3 == IF tag_filter # "" THEN SelectSeq(t2, ByTag) ELSE t2
  IN  [i \in 1..Len(t3) |-> asdict_trace(t3[i])]

\* MetricsStore.get_traces.  An empty search or filter is one not supplied.
get_traces(ms, limit, search, processor_filter, tag_filter) ==
  LET search_lower == lower(search)
      BySearch(t) ==
        \/ StrIn(search_lower, lower(t.original_content))
        \/ StrIn(search_lower, lower(t.final_content))
        \/ \E i \in 1..Len(t.steps) :
              \/ StrIn(search_lower, lower(t.steps[i].input_content))
              \/ StrIn(search_lower, lower(t.steps[i].output_content))
      ByProcessor(t) == ListIn(processor_filter, t.path)
      ByTag(t) == tag_filter \in t.all_tags
      t0 == ms.traces
      t1 == IF search # <<>> THEN SelectSeq(t0, BySearch) ELSE t0
      t2 == IF processor_filter # "" THEN SelectSeq(t1, ByProcessor) ELSE t1
      t3 == IF tag_filter # "" THEN SelectSeq(t2, ByTag) ELSE t2
      recent_traces == IF t3 # <<>> THEN SliceFrom(t3, 0 - limit) ELSE <<>>
  IN  [i \in 1..Len(recent_traces) |-> asdict_trace(recent_traces[i])]

\* MetricsStore.get_errors
get_errors(ms, limit) == SliceFrom(ms.errors, 0 - limit)

\* A set_current_file that ignores None.
set_current_file_sticky(ms, filename) ==
  IF filename = NoFile THEN ms ELSE [ms EXCEPT !.current_file = filename]

\* MetricsStore.set_current_file
set_current_file(ms, filename) == [ms EXCEPT !.current_file = filename]

\* MetricsStore.record_processed_file
record_processed_file(ms, filename) ==
  [ms EXCEPT !.last_processed_files =
                deque_append(ms.last_processed_files, filename, LastProcessedMaxlen),
             !.current_file = IF ms.current_file = filename THEN NoFile
                              ELSE ms.current_file]

\* ----------------------------------------------------------- build_routing
\* A config document: [start, nodes], nodes a sequence of [tag, type, routes].
\* start is NoStart when the document has no `start` field.
NoStart == "<absent>"

NodeCfg(tag, type, routes) == [tag |-> tag, type |-> type, routes |-> routes]

\* The processor object load_function returns for the i-th node entry: a fresh
\* instance of a class, or the module-level object the identifier names.
InstanceOf_shared(type, i) == type
InstanceOf(type, i) == IF IsClass(type) THEN ToString(i) ELSE type

\* The module-level processor objects, as they are after import.
ModuleInstances ==
  [t \in {x \in ProcessorTypes : ~IsClass(x)} |->
     [type |-> t, processor_tag |-> InitialProcessorTag(t), count |-> 0]]

\* One iteration of build_routing's loop over config["nodes"]: load_function,
\* ProcessorNode (which tags a BaseProcessor), record_processor_metrics.
\* b is [nodes, procs, ms, error].
LoadNode(b, node_cfg, i) ==
  IF node_cfg.type \notin ProcessorTypes
  THEN [b EXCEPT !.error = "unresolved_type"]
  ELSE LET inst  == InstanceOf(node_cfg.type, i)
           fresh == IF ~IsClass(node_cfg.type) /\ inst \in DOMAIN b.procs THEN b.procs[inst]
                    ELSE [type |-> node_cfg.type,
                          processor_tag |-> InitialProcessorTag(node_cfg.type),
                          count |-> 0]
           proc  == IF IsBaseProcessor(node_cfg.type)
                    THEN [fresh EXCEPT !.processor_tag = node_cfg.tag]
                    ELSE fresh
           node  == [tag |-> node_cfg.tag, processor |-> inst]
       IN  [b EXCEPT
              !.nodes = [t \in (DOMAIN b.nodes) \cup {node_cfg.tag} |->
                           IF t = node_cfg.tag THEN node ELSE b.nodes[t]],
              !.procs = [p \in (DOMAIN b.procs) \cup {inst} |->
                           IF p = inst THEN proc ELSE b.procs[p]],
              !.ms = record_processor_metrics(b.ms, node_cfg.tag, 0, TRUE)]

RECURSIVE LoadNodes(_, _, _)
LoadNodes(b, entries, i) ==
  IF i > Len(entries) \/ b.error # "none" THEN b
  ELSE LoadNodes(LoadNode(b, entries[i], i), entries, i + 1)

\* Whether some node declares a route to a tag that is neither a node nor "end".
HasUnknownRoute(entries, nodes) ==
  \E i \in 1..Len(entries) : \E j \in 1..Len(entries[i].routes) :
     entries[i].routes[j] \notin DOMAIN nodes /\ entries[i].routes[j] # "end"

\* A build_routing that does not ask for an `end` node.
build_routing_noend(config, procs, ms) ==
  LET b == LoadNodes([nodes |-> [t \in {} |-> 0], procs |-> procs, ms |-> ms,
                      error |-> "none"], config.nodes, 1)
  IN  IF b.error # "none" THEN b
      ELSE IF "start" \notin DOMAIN b.nodes THEN [b EXCEPT !.error = "no_start_node"]
      ELSE IF HasUnknownRoute(config.nodes, b.nodes) THEN [b EXCEPT !.error = "unknown_route"]
      ELSE b

\* build_routing: [nodes, procs, ms, error]; error is "none" when it returns.
build_routing(config, procs, ms) ==
  LET b == LoadNodes([nodes |-> [t \in {} |-> 0], procs |-> procs, ms |-> ms,
                      error |-> "none"], config.nodes, 1)
  IN  IF b.error # "none" THEN b
      ELSE IF "start" \notin DOMAIN b.nodes THEN [b EXCEPT !.error = "no_start_node"]
      ELSE IF "end" \notin DOMAIN b.nodes THEN [b EXCEPT !.error = "no_end_node"]
      ELSE IF HasUnknownRoute(config.nodes, b.nodes) THEN [b EXCEPT !.error = "unknown_route"]
      ELSE b

\* cfg.get("start", "start")
StartTag(config) == IF config.start = NoStart THEN "start" ELSE config.start

\* ---------------------------------------------------------- BaseProcessor
RECURSIVE AddSteps(_, _, _, _, _, _)
\* The add_trace_step calls of BaseProcessor.__call__, one per pair produced.
AddSteps(ms, line_id, processor_tag, line, pairs, i) ==
  IF i > Len(pairs) THEN ms
  ELSE AddSteps(add_trace_step(ms, line_id, processor_tag, line, pairs[i].line, pairs[i].tags),
                line_id, processor_tag, line, pairs, i + 1)

\* BaseProcessor.__call__ on iter([line]) up to its first yield: start_trace,
\* process() run to its end with a trace step per pair, and on an exception
\* record_error and record_processor_metrics(success=False).
\* [yields, raises, ms, count, line_id]
BaseCallBegin(proc, line, ms) ==
  LET t  == start_trace(ms, line)
      r  == process(proc.type, line, proc.count)
      m1 == AddSteps(t.ms, t.line_id, proc.processor_tag, line, r.pairs, 1)
  IN  IF r.raises
      THEN [yields |-> <<>>, raises |-> TRUE, count |-> r.count, line_id |-> t.line_id,
            ms |-> record_processor_metrics(
                     record_error(m1, proc.processor_tag, "StageError", line),
                     proc.processor_tag, ExecutionTime, FALSE)]
      ELSE [yields |-> r.pairs, raises |-> FALSE, count |-> r.count,
            line_id |-> t.line_id, ms |-> m1]

\* A call whose trace is completed whether or not there were results.
BaseCallEnd_always(processor_tag, line_id, yields, ms) ==
  record_processor_metrics(
    complete_trace(ms, line_id, IF yields # <<>> THEN Last(yields).line ELSE <<>>),
    processor_tag, ExecutionTime, TRUE)

\* BaseProcessor.__call__ after its last yield was consumed: complete_trace
\* when there were results, then the finally clause.
BaseCallEnd(processor_tag, line_id, yields, ms) ==
  record_processor_metrics(
    IF yields # <<>> THEN complete_trace(ms, line_id, Last(yields).line) ELSE ms,
    processor_tag, ExecutionTime, TRUE)

\* A plain callable on iter([line]): it yields its pairs and may then raise.
PlainCall(proc, line, ms) ==
  LET r == process(proc.type, line, proc.count)
  IN  [yields |-> r.pairs, raises |-> r.raises, count |-> r.count, line_id |-> 0,
       ms |-> ms]

\* processor_node.processor(iter([line]))
Call(proc, line, ms) ==
  IF IsBaseProcessor(proc.type) THEN BaseCallBegin(proc, line, ms)
  ELSE PlainCall(proc, line, ms)

\* -------------------------------------------------------------- run_router
\* An envelope that counts every hop twice.
Envelope_twice(tag, line, hops, line_id) ==
  [tag |-> tag, line |-> line, hops |-> 2 * hops, line_id |-> line_id]

\* (tag, line, hops, line_id)
Envelope(tag, line, hops, line_id) ==
  [tag |-> tag, line |-> line, hops |-> hops, line_id |-> line_id]

\* pending = deque([(start_tag, line, 0, "") for line in lines])
InitialPending(start_tag, lines) ==
  [i \in 1..Len(lines) |-> Envelope(start_tag, lines[i], 0, 0)]

\* A queue that is emptied from the tail (pop).
popleft_right(q) == [item |-> Last(q), rest |-> SubSeq(q, 1, Len(q) - 1)]

\* pending.popleft(): the envelope taken and the queue left
popleft(q) == [item |-> Head(q), rest |-> Tail(q)]

\* A queue that is filled at the head (appendleft).
append_left(q, x) == <<x>> \o q

\* pending.append(x)
append(q, x) == Append(q, x)

\* The checks that decide what the loop body does with the popped envelope.
IsEnd(env) == env.tag = "end"
\* Hop checks that are off by one, either way.
HopsExceeded_late(env, limit) == env.hops > limit + 1
HopsExceeded_early(env, limit) == env.hops >= limit
\* A hop check that lets a line go twice as far.
HopsExceeded_twice(env, limit) == env.hops > 2 * limit

HopsExceeded(env, limit) == env.hops > limit
IsKnownTag(tag, table) == tag \in DOMAIN table

\* A loop over the tags that stops after the first one.
EnqueueTags_first(st, out_tags, out_line, env, line_id, table) ==
  IF out_tags = <<>> THEN st
  ELSE IF Head(out_tags) \notin DOMAIN table /\ Head(out_tags) # "end"
  THEN [st EXCEPT !.ms = record_error(st.ms, env.tag, "KeyError", env.line),
                  !.fault = "unknown_emitted_tag"]
  ELSE LET e == [tag |-> Head(out_tags), line |-> out_line, hops |-> env.hops + 1,
                 line_id |-> line_id]
       IN  [st EXCEPT !.pending = Append(st.pending, e),
                      !.inserted = Append(st.inserted, e)]

RECURSIVE EnqueueTags_set(_, _, _, _, _, _)
\* A loop over the set of the tags: a tag that comes again later in the list
\* is enqueued once.
EnqueueTags_set(st, out_tags, out_line, env, line_id, table) ==
  IF out_tags = <<>> THEN st
  ELSE IF \E j \in 2..Len(out_tags) : out_tags[j] = Head(out_tags)
  THEN EnqueueTags_set(st, Tail(out_tags), out_line, env, line_id, table)
  ELSE IF Head(out_tags) \notin DOMAIN table /\ Head(out_tags) # "end"
  THEN [st EXCEPT !.ms = record_error(st.ms, env.tag, "KeyError", env.line),
                  !.fault = "unknown_emitted_tag"]
  ELSE LET e == [tag |-> Head(out_tags), line |-> out_line, hops |-> env.hops + 1,
                 line_id |-> line_id]
       IN  EnqueueTags_set([st EXCEPT !.pending = Append(st.pending, e),
                                      !.inserted = Append(st.inserted, e)],
                           Tail(out_tags), out_line, env, line_id, table)

RECURSIVE EnqueueTags(_, _, _, _, _, _)
\* `for out_tag in out_tags`: st is [pending, inserted, ms, fault]; env is the
\* envelope being processed and line_id the trace id its copies inherit.
EnqueueTags(st, out_tags, out_line, env, line_id, table) ==
  IF out_tags = <<>> THEN st
  ELSE LET out_tag == Head(out_tags)
       IN  IF ~IsKnownTag(out_tag, table) /\ out_tag # "end"
           THEN [st EXCEPT !.ms = record_error(st.ms, env.tag, "KeyError", env.line),
                           !.fault = "unknown_emitted_tag"]
           ELSE LET e == Envelope(out_tag, out_line, env.hops + 1, line_id)
                IN  EnqueueTags([st EXCEPT !.pending = append(st.pending, e),
                                           !.inserted = Append(st.inserted, e)],
                                Tail(out_tags), out_line, env, line_id, table)

RECURSIVE ConsumeYields_router(_, _, _, _, _)
\* Validation that records a bad tag-list under "router" instead of the tag
\* of the stage.
ConsumeYields_router(st, yields, env, line_id, table) ==
  IF yields = <<>> \/ st.fault # "none" THEN st
  ELSE LET y == Head(yields)
       IN  IF ~y.islist
           THEN [st EXCEPT !.ms = record_error(st.ms, "router", "TypeError", env.line),
                           !.fault = "tags_not_a_list"]
           ELSE IF y.tags = <<>>
           THEN [st EXCEPT !.ms = record_error(st.ms, "router", "ValueError", env.line),
                           !.fault = "empty_tags"]
           ELSE ConsumeYields_router(EnqueueTags(st, y.tags, y.line, env, line_id, table),
                                     Tail(yields), env, line_id, table)

RECURSIVE ConsumeYields(_, _, _, _, _)
\* `for out_tags, out_line in processor(...)`: validate each pair and enqueue
\* its copies, until a pair is invalid.
ConsumeYields(st, yields, env, line_id, table) ==
  IF yields = <<>> \/ st.fault # "none" THEN st
  ELSE LET y == Head(yields)
       IN  IF ~y.islist
           THEN [st EXCEPT !.ms = record_error(st.ms, env.tag, "TypeError", env.line),
                           !.fault = "tags_not_a_list"]
           ELSE IF y.tags = <<>>
           THEN [st EXCEPT !.ms = record_error(st.ms, env.tag, "ValueError", env.line),
                           !.fault = "empty_tags"]
           ELSE ConsumeYields(EnqueueTags(st, y.tags, y.line, env, line_id, table),
                              Tail(yields), env, line_id, table)

\* The loop body once the processor has been iterated over: what is raised,
\* and BaseProcessor.__call__ run to its end when nothing is.  rs is the state
\* [pending, output, ms, procs, fault, suspended, opened] before the
\* iteration, c the processor's reply and st what ConsumeYields left.
DispatchEnd(rs, node, proc, c, st) ==
  [rs EXCEPT
     !.pending = st.pending,
     !.ms = IF st.fault = "none" /\ ~c.raises /\ IsBaseProcessor(proc.type)
            THEN BaseCallEnd(proc.processor_tag, c.line_id, c.yields, st.ms)
            ELSE st.ms,
     !.fault = IF st.fault # "none" THEN st.fault
               ELSE IF c.raises THEN "stage_error" ELSE "none",
     !.suspended = IF st.fault # "none" /\ IsBaseProcessor(proc.type) THEN node.processor
                   ELSE rs.suspended,
     !.procs = [rs.procs EXCEPT ![node.processor].count = c.count]]

\* The loop body from the call of the processor on: its yields are validated
\* and enqueued.
DispatchCall(rs, rest, env, node, proc, line_id, c) ==
  DispatchEnd(rs, node, proc, c,
              ConsumeYields([pending |-> rest, inserted |-> <<>>, ms |-> c.ms,
                             fault |-> "none"],
                            c.yields, env, line_id, rs.table))

\* The loop body for a tag of the node table, t being what start_trace gave.
DispatchTraced(rs, rest, env, node, proc, t) ==
  DispatchCall(rs, rest, env, node, proc, t.line_id, Call(proc, env.line, t.ms))

DispatchNode(rs, rest, env, node) ==
  DispatchTraced(rs, rest, env, node, rs.procs[node.processor],
                 IF env.line_id = 0 /\ rs.ms.trace_enabled
                 THEN start_trace(rs.ms, env.line)
                 ELSE [ms |-> rs.ms, line_id |-> env.line_id])

\* One iteration of `while pending`, env being the envelope popped and rest the
\* queue it leaves.
RouterIteration(rs, env, rest) ==
  IF IsEnd(env)
  THEN [rs EXCEPT !.pending = rest,
                  !.ms = IF env.line_id # 0 /\ rs.ms.trace_enabled
                         THEN complete_trace(
                                add_trace_step(rs.ms, env.line_id, "end", env.line,
                                               env.line, <<"end">>),
                                env.line_id, env.line)
                         ELSE rs.ms,
                  !.output = Append(rs.output, env.line)]
  ELSE IF HopsExceeded(env, rs.limit)
  THEN [rs EXCEPT !.pending = rest,
                  !.ms = record_error(rs.ms, "router", "RuntimeError", env.line),
                  !.fault = "hop_limit"]
  ELSE IF ~IsKnownTag(env.tag, rs.table)
  THEN [rs EXCEPT !.pending = rest,
                  !.ms = record_error(rs.ms, "router", "KeyError", env.line),
                  !.fault = "unknown_tag"]
  ELSE DispatchNode(rs, rest, env, rs.table[env.tag])

RouterStep(rs) ==
  RouterIteration(rs, popleft(rs.pending).item, popleft(rs.pending).rest)

RECURSIVE RouterLoop(_)
\* `while pending`, run until the queue is empty or something is raised.
RouterLoop(rs) ==
  IF rs.fault # "none" \/ rs.pending = <<>> THEN rs
  ELSE CHOOSE r \in { RouterLoop(x) : x \in {RouterStep(rs)} } : TRUE

\* write_output over run_router(start_tag, lines, nodes, max_hops), as far as
\* it gets: the file is opened, then the lines yielded are written; what was
\* raised, and the store and the processors afterwards.
run_router(start_tag, lines, table, procs, ms, limit, suspended) ==
  RouterLoop([pending |-> InitialPending(start_tag, lines), output |-> <<>>,
              ms |-> ms, procs |-> procs, fault |-> "none", suspended |-> suspended,
              opened |-> TRUE, table |-> table, limit |-> limit])

\* -------------------------------------------------------------- file queue
\* A file of a lifecycle directory: a source file, the id-th that arrived (its
\* mtime), or an output file.  content is what the file holds once closed.
SourceFile(id, content) == [kind |-> "source", id |-> id, content |-> content]
OutputFile(content) == [kind |-> "output", id |-> 0, content |-> content]

\* A directory is a function from the names of its regular files to the files.
EmptyDir == [n \in {} |-> 0]
Without(dir, name) == [n \in (DOMAIN dir) \ {name} |-> dir[n]]
With(dir, name, f) == [n \in (DOMAIN dir) \cup {name} |-> IF n = name THEN f ELSE dir[n]]

\* A move that copies the file and leaves the original where it was.
shutil_move_copy(src, dst, name, dest) ==
  [src |-> src, dst |-> With(dst, dest, src[name])]

\* shutil.move(src/name, dst/dest) inside one base directory, a rename: a file
\* already at dst/dest is replaced.  [src, dst] afterwards.
shutil_move(src, dst, name, dest) ==
  [src |-> Without(src, name), dst |-> With(dst, dest, src[name])]

\* The order of str on the tokens of file names.
TokenRank(t) ==
  CASE t = ".dup" -> 1 [] t = ".out" -> 2 [] t = ".retry" -> 3
    [] t = "x.txt" -> 4 [] t = "y.txt" -> 5

RECURSIVE NameLess(_, _)
NameLess(a, b) ==
  IF b = <<>> THEN FALSE
  ELSE IF a = <<>> THEN TRUE
  ELSE IF Head(a) # Head(b) THEN TokenRank(Head(a)) < TokenRank(Head(b))
  ELSE NameLess(Tail(a), Tail(b))

RECURSIVE SortNames(_)
\* sorted(underprocess.iterdir())
SortNames(S) ==
  IF S = {} THEN <<>>
  ELSE LET m == CHOOSE x \in S : \A y \in S \ {x} : NameLess(x, y)
       IN  <<m>> \o SortNames(S \ {m})

RECURSIVE SortByMtime(_, _)
\* sorted([p for p in unprocessed.iterdir() if p.is_file()], key=st_mtime)
SortByMtime(dir, S) ==
  IF S = {} THEN <<>>
  ELSE LET m == CHOOSE x \in S : \A y \in S \ {x} :
                   \/ dir[x].id < dir[y].id
                   \/ dir[x].id = dir[y].id /\ NameLess(x, y)
       IN  <<m>> \o SortByMtime(dir, S \ {m})

\* A listing that keeps the oldest candidate only.
Candidates_oldest(dir) ==
  IF DOMAIN dir = {} THEN <<>> ELSE <<Head(SortByMtime(dir, DOMAIN dir))>>
Candidates(dir) == SortByMtime(dir, DOMAIN dir)

\* output_dir / (filename + ".out"), and the names a collision gives
OutName(name) == Append(name, ".out")
\* A commit that keeps the name, whatever is there.
DupName_same(name) == name
DupName(name) == Append(name, ".dup")
\* A retry that keeps the name, whatever is there.
RetryName_same(name) == name
RetryName(name) == Append(name, ".retry")

\* The names files arrive with, and the lines a file of each name holds: one
\* line in x.txt, none in y.txt.
FileNames == { <<"x.txt">>, <<"y.txt">> }
FileContent(name) == IF name = <<"x.txt">> THEN << <<"a">> >> ELSE <<>>

\* ------------------------------------------------------------------ state
VARIABLES
  config,        \* the config document at config_path
  input,         \* the lines of the input file
  max_hops,      \* run_router's max_hops
  pc,            \* where main.run is
  fault,         \* what was raised, "none" if nothing
  nodes,         \* the node table build_routing returned
  procs,         \* the processor objects: instance -> [type, processor_tag, count]
  ms,            \* the MetricsStore singleton
  pending,       \* run_router's work queue
  output,        \* the lines run_router has yielded, in order
  suspended,     \* the BaseProcessor generator left at a yield by a raise, or NoInstance
  inserted,      \* history: every envelope ever put in pending, in order
  popped,        \* history: every envelope taken from pending, in order
  called,        \* history: the envelopes a processor was invoked for, in order
  mainpc,        \* where the main thread is: "single" outside watch mode
  wpc,           \* where monitor_folder is: "off" outside watch mode
  stop_event,    \* the threading.Event of the monitor
  todo,          \* the rest of the list the monitor is iterating over
  claimed,       \* the name of the file the monitor holds, or NoFile
  unprocessed,   \* the directories of the file queue
  underprocess,
  processed,
  clock,         \* how many files have arrived
  claims,        \* how many files the monitor has claimed
  runs,          \* how many times the process was started
  faulty,        \* whether a move inside watch_dir can raise
  mutex,         \* the thread that holds MetricsStore.mutex, or NoThread
  threads        \* the threads calling the store's methods: thread -> where it is

\* The monitor's own state, and the directories.
monitor == <<mainpc, wpc, stop_event, todo, claimed, clock, claims, runs, faulty>>
queue_dirs == <<unprocessed, underprocess, processed>>

\* The store's lock and the threads whose calls of the store are followed
\* statement by statement.
clients == <<mutex, threads>>

vars == <<config, input, max_hops, pc, fault, nodes, procs, ms, pending, output,
          suspended, inserted, popped, called, monitor, queue_dirs, clients>>

\* self.mutex = threading.Lock(), not held
NoThread == "<free>"

NoInstance == "<none>"

\* ----------------------------------------------------------------- inputs
Doc(start, entries) == [start |-> start, nodes |-> entries]

\* What the node under test may be.
StageTypes ==
  {"Terminal", "Forward", "Fan", "DualEnd", "Drop", "StrTags", "EmptyTags",
   "UnknownEmit", "Raiser", "LateRaiser"}

\* The config documents the runs are given.
Configs ==
     \* the stage under test is the start node
     { Doc(NoStart, << NodeCfg("start", t, <<>>), NodeCfg("next", "Terminal", <<"end">>),
                       NodeCfg("end", "Terminal", <<>>) >>) : t \in StageTypes }
     \* the stage under test follows a start node that also emits to `end`
  \cup { Doc(NoStart, << NodeCfg("start", "Fan", <<"end", "next">>), NodeCfg("next", t, <<>>),
                         NodeCfg("end", "Terminal", <<>>) >>) : t \in StageTypes }
  \cup { \* start -> next, and next re-emits to itself
         Doc(NoStart, << NodeCfg("start", "Forward", <<"next">>),
                         NodeCfg("next", "Forward", <<"next">>),
                         NodeCfg("end", "Terminal", <<>>) >>),
         Doc("start", << NodeCfg("start", "SplitLines", <<"split">>),
                         NodeCfg("split", "Terminal", <<"end">>),
                         NodeCfg("end", "Terminal", <<>>) >>),
         Doc("start", << NodeCfg("start", "SplitLines", <<"split">>),
                         NodeCfg("split", "DualEnd", <<"end">>),
                         NodeCfg("end", "Terminal", <<>>) >>),
         Doc("start", << NodeCfg("start", "upper_processor", <<"uppercase">>),
                         NodeCfg("uppercase", "Terminal", <<"end">>),
                         NodeCfg("end", "Terminal", <<>>) >>),
         Doc("start", << NodeCfg("start", "LineCounter", <<"default">>),
                         NodeCfg("default", "Terminal", <<"end">>),
                         NodeCfg("end", "Terminal", <<>>) >>),
         \* two LineCounter stages, every line routed through both
         Doc(NoStart, << NodeCfg("start", "Both", <<"c1", "c2">>),
                         NodeCfg("c1", "LineCounter", <<"default">>),
                         NodeCfg("c2", "LineCounter", <<"default">>),
                         NodeCfg("default", "Terminal", <<"end">>),
                         NodeCfg("end", "Terminal", <<>>) >>),
         \* `start` names a tag that is no node, `end`, or another node
         Doc("begin", << NodeCfg("start", "Terminal", <<>>), NodeCfg("end", "Terminal", <<>>) >>),
         Doc("end", << NodeCfg("start", "Terminal", <<>>), NodeCfg("end", "Terminal", <<>>) >>),
         Doc("next", << NodeCfg("start", "Terminal", <<>>), NodeCfg("next", "DualEnd", <<>>),
                        NodeCfg("end", "Terminal", <<>>) >>),
         \* the start field names a node, and no node is tagged "start"
         Doc("next", << NodeCfg("next", "Terminal", <<"end">>), NodeCfg("end", "Terminal", <<>>) >>),
         \* two entries with the same tag
         Doc(NoStart, << NodeCfg("start", "Raiser", <<>>), NodeCfg("start", "Terminal", <<"end">>),
                         NodeCfg("end", "Terminal", <<>>) >>),
         \* configs build_routing rejects
         Doc(NoStart, << NodeCfg("start", "Terminal", <<"end">>) >>),
         Doc(NoStart, << NodeCfg("next", "Terminal", <<>>), NodeCfg("end", "Terminal", <<>>) >>),
         Doc(NoStart, << NodeCfg("start", "Terminal", <<"nowhere">>),
                         NodeCfg("end", "Terminal", <<>>) >>),
         Doc(NoStart, << NodeCfg("start", "no.such.processor", <<>>),
                         NodeCfg("end", "Terminal", <<>>) >>) }

Inputs == SeqsUpTo(InputLines, MaxLines)

\* ----------------------------------------------------------------- actions
\* main.run before build_routing: the singleton is created and tracing set.
Init ==
  /\ config \in Configs
  /\ input \in Inputs
  /\ max_hops \in 0..MaxHops
  /\ pc = "start"
  /\ fault = "none"
  /\ nodes = [t \in {} |-> 0]
  /\ procs = ModuleInstances
  /\ \E enabled \in BOOLEAN : ms = MetricsStore(MaxTraces, MaxErrors, enabled)
  /\ pending = <<>>
  /\ output = <<>>
  /\ suspended = NoInstance
  /\ inserted = <<>>
  /\ popped = <<>>
  /\ called = <<>>
  /\ mainpc = "single" /\ wpc = "off" /\ stop_event = FALSE
  /\ todo = <<>> /\ claimed = NoFile
  /\ unprocessed = EmptyDir /\ underprocess = EmptyDir /\ processed = EmptyDir
  /\ clock = 0 /\ claims = 0 /\ runs = 1 /\ faulty = FALSE
  /\ mutex = NoThread /\ threads = <<>>

\* nodes = build_routing(config_path)
BuildRouting ==
  /\ pc = "start"
  /\ LET b == build_routing(config, procs, ms)
     IN  /\ procs' = b.procs
         /\ ms' = b.ms
         /\ nodes' = IF b.error = "none" THEN b.nodes ELSE nodes
         /\ pc' = IF b.error = "none" THEN "built" ELSE "raised"
         /\ fault' = b.error
  /\ UNCHANGED <<monitor, queue_dirs, clients>>
  /\ UNCHANGED <<config, input, max_hops, pending, output, suspended, inserted, popped, called>>

\* run_router up to its loop: the queue is built from all the input lines.
RouterStart ==
  /\ pc = "built"
  /\ pending' = InitialPending(StartTag(config), input)
  /\ inserted' = pending'
  /\ pc' = "routing"
  /\ UNCHANGED <<monitor, queue_dirs, clients>>
  /\ UNCHANGED <<config, input, max_hops, fault, nodes, procs, ms, output, suspended,
                 popped, called>>

\* One iteration of the loop, tag == "end": the trace is completed and the line
\* yielded.
EmitEnd ==
  /\ pc = "routing" /\ pending # <<>>
  /\ LET p   == popleft(pending)
         env == p.item
     IN  /\ IsEnd(env)
         /\ pending' = p.rest
         /\ popped' = Append(popped, env)
         /\ ms' = IF env.line_id # 0 /\ ms.trace_enabled
                  THEN complete_trace(
                         add_trace_step(ms, env.line_id, "end", env.line, env.line, <<"end">>),
                         env.line_id, env.line)
                  ELSE ms
         /\ output' = Append(output, env.line)
  /\ UNCHANGED <<monitor, queue_dirs, clients>>
  /\ UNCHANGED <<config, input, max_hops, pc, fault, nodes, procs, suspended, inserted, called>>

\* A hop-limit branch that records the error under the tag of the envelope.
HopLimit_stage ==
  /\ pc = "routing" /\ pending # <<>>
  /\ LET p   == popleft(pending)
         env == p.item
     IN  /\ ~IsEnd(env) /\ HopsExceeded(env, max_hops)
         /\ pending' = p.rest
         /\ popped' = Append(popped, env)
         /\ ms' = record_error(ms, env.tag, "RuntimeError", env.line)
         /\ fault' = "hop_limit"
         /\ pc' = "raised"
  /\ UNCHANGED <<monitor, queue_dirs, clients>>
  /\ UNCHANGED <<config, input, max_hops, nodes, procs, output, suspended, inserted, called>>

\* A hop-limit branch taken before the tag is compared with "end".
HopLimit_first ==
  /\ pc = "routing" /\ pending # <<>>
  /\ LET p   == popleft(pending)
         env == p.item
     IN  /\ HopsExceeded(env, max_hops)
         /\ pending' = p.rest
         /\ popped' = Append(popped, env)
         /\ ms' = record_error(ms, "router", "RuntimeError", env.line)
         /\ fault' = "hop_limit"
         /\ pc' = "raised"
  /\ UNCHANGED <<monitor, queue_dirs, clients>>
  /\ UNCHANGED <<config, input, max_hops, nodes, procs, output, suspended, inserted, called>>

\* One iteration of the loop, hops > max_hops.
HopLimit ==
  /\ pc = "routing" /\ pending # <<>>
  /\ LET p   == popleft(pending)
         env == p.item
     IN  /\ ~IsEnd(env) /\ HopsExceeded(env, max_hops)
         /\ pending' = p.rest
         /\ popped' = Append(popped, env)
         /\ ms' = record_error(ms, "router", "RuntimeError", env.line)
         /\ fault' = "hop_limit"
         /\ pc' = "raised"
  /\ UNCHANGED <<monitor, queue_dirs, clients>>
  /\ UNCHANGED <<config, input, max_hops, nodes, procs, output, suspended, inserted, called>>

\* An unknown-tag branch that records the error and goes on with the queue.
UnknownTag_continue ==
  /\ pc = "routing" /\ pending # <<>>
  /\ LET p   == popleft(pending)
         env == p.item
     IN  /\ ~IsEnd(env) /\ ~HopsExceeded(env, max_hops) /\ ~IsKnownTag(env.tag, nodes)
         /\ pending' = p.rest
         /\ popped' = Append(popped, env)
         /\ ms' = record_error(ms, "router", "KeyError", env.line)
  /\ UNCHANGED <<monitor, queue_dirs, clients>>
  /\ UNCHANGED <<config, input, max_hops, pc, fault, nodes, procs, output, suspended,
                 inserted, called>>

\* One iteration of the loop, tag not in nodes.
UnknownTag ==
  /\ pc = "routing" /\ pending # <<>>
  /\ LET p   == popleft(pending)
         env == p.item
     IN  /\ ~IsEnd(env) /\ ~HopsExceeded(env, max_hops) /\ ~IsKnownTag(env.tag, nodes)
         /\ pending' = p.rest
         /\ popped' = Append(popped, env)
         /\ ms' = record_error(ms, "router", "KeyError", env.line)
         /\ fault' = "unknown_tag"
         /\ pc' = "raised"
  /\ UNCHANGED <<monitor, queue_dirs, clients>>
  /\ UNCHANGED <<config, input, max_hops, nodes, procs, output, suspended, inserted, called>>

\* One iteration of the loop, the processor of the tag is invoked.
Dispatch ==
  /\ pc = "routing" /\ pending # <<>>
  /\ LET p   == popleft(pending)
         env == p.item
     IN  /\ ~IsEnd(env) /\ ~HopsExceeded(env, max_hops) /\ IsKnownTag(env.tag, nodes)
         /\ LET node == nodes[env.tag]
                proc == procs[node.processor]
                base == IsBaseProcessor(proc.type)
                t    == IF env.line_id = 0 /\ ms.trace_enabled
                        THEN start_trace(ms, env.line)
                        ELSE [ms |-> ms, line_id |-> env.line_id]
                c    == Call(proc, env.line, t.ms)
                st   == ConsumeYields([pending |-> p.rest, inserted |-> inserted,
                                       ms |-> c.ms, fault |-> "none"],
                                      c.yields, env, t.line_id, nodes)
                finished == st.fault = "none" /\ ~c.raises
            IN  /\ pending' = st.pending
                /\ inserted' = st.inserted
                /\ ms' = IF finished /\ base
                         THEN BaseCallEnd(proc.processor_tag, c.line_id, c.yields, st.ms)
                         ELSE st.ms
                /\ fault' = IF st.fault # "none" THEN st.fault
                            ELSE IF c.raises THEN "stage_error" ELSE "none"
                /\ pc' = IF finished THEN "routing" ELSE "raised"
                /\ suspended' = IF st.fault # "none" /\ base THEN node.processor
                                ELSE suspended
                /\ procs' = [procs EXCEPT ![node.processor].count = c.count]
                /\ popped' = Append(popped, env)
                /\ called' = Append(called, env)
  /\ UNCHANGED <<monitor, queue_dirs, clients>>
  /\ UNCHANGED <<config, input, max_hops, nodes, output>>

\* The loop ends: run_router returns.
RouterFinish ==
  /\ pc = "routing" /\ pending = <<>>
  /\ pc' = "done"
  /\ UNCHANGED <<monitor, queue_dirs, clients>>
  /\ UNCHANGED <<config, input, max_hops, fault, nodes, procs, ms, pending, output,
                 suspended, inserted, popped, called>>

\* main.run's `except Exception`: the error is recorded under "pipeline" and
\* raised again.
RunExcept ==
  /\ pc = "raised"
  /\ ms' = record_error(ms, "pipeline", fault, NoLine)
  /\ pc' = "exit_error"
  /\ UNCHANGED <<monitor, queue_dirs, clients>>
  /\ UNCHANGED <<config, input, max_hops, fault, nodes, procs, pending, output,
                 suspended, inserted, popped, called>>

\* The generator a raise left suspended at a yield is closed when it is
\* released: the finally clause of BaseProcessor.__call__ runs.
CloseGenerator ==
  /\ suspended # NoInstance
  /\ ms' = record_processor_metrics(ms, procs[suspended].processor_tag, ExecutionTime, TRUE)
  /\ suspended' = NoInstance
  /\ UNCHANGED <<monitor, queue_dirs, clients>>
  /\ UNCHANGED <<config, input, max_hops, pc, fault, nodes, procs, pending, output,
                 inserted, popped, called>>

Next ==
  \/ BuildRouting
  \/ RouterStart
  \/ EmitEnd
  \/ HopLimit
  \/ UnknownTag
  \/ Dispatch
  \/ RouterFinish
  \/ RunExcept
  \/ CloseGenerator

Spec == Init /\ [][Next]_vars

\* The steps of the single-file run outside build_routing and the stage calls.
MainStep ==
  \/ RouterStart
  \/ EmitEnd
  \/ HopLimit
  \/ UnknownTag
  \/ RouterFinish
  \/ RunExcept
  \/ CloseGenerator

\* The loop is about to invoke the processor of the popped envelope, and the
\* step that does it.
DispatchReady ==
  /\ pc = "routing" /\ pending # <<>>
  /\ ~IsEnd(Head(pending)) /\ ~HopsExceeded(Head(pending), max_hops)
  /\ IsKnownTag(Head(pending).tag, nodes)
DispatchStep == DispatchReady /\ called' = Append(called, Head(pending))

\* The interpreter keeps running the main thread: a step that can be taken
\* is taken.  For build_routing and for a stage call, which return (a stage
\* emits finitely many pairs), this is weak fairness written out: the step is
\* taken again and again, or is again and again not the one to take.
RouterFairness ==
  /\ WF_vars(MainStep)
  /\ []<>(pc # "start")
  /\ ([]<>(~DispatchReady) \/ []<><<DispatchStep>>_vars)

RouterFairSpec == Init /\ [][Next]_vars /\ RouterFairness

\* ------------------------------------------------------------- watch mode
\* The config documents of the watch-mode runs: one that succeeds, one that
\* fails after a line was written, and one for each other way to fail.
WatchConfigs ==
  { Doc(NoStart, << NodeCfg("start", "Terminal", <<"end">>), NodeCfg("end", "Terminal", <<>>) >>),
    Doc(NoStart, << NodeCfg("start", "Fan", <<"end", "next">>), NodeCfg("next", "Raiser", <<>>),
                    NodeCfg("end", "Terminal", <<>>) >>),
    Doc(NoStart, << NodeCfg("start", "Forward", <<"next">>),
                    NodeCfg("next", "Forward", <<"next">>),
                    NodeCfg("end", "Terminal", <<>>) >>),
    Doc(NoStart, << NodeCfg("start", "EmptyTags", <<"end">>), NodeCfg("end", "Terminal", <<>>) >>),
    Doc("begin", << NodeCfg("start", "Terminal", <<>>), NodeCfg("end", "Terminal", <<>>) >>),
    Doc(NoStart, << NodeCfg("start", "Terminal", <<"nowhere">>),
                    NodeCfg("end", "Terminal", <<>>) >>) }

\* main.run with watch_dir set: the store is created, the monitor thread is
\* started on the directories ensure_queue_dirs made, and the main thread
\* sleeps.  run_router gets its default max_hops.
WatchInit ==
  /\ config \in WatchConfigs
  /\ input = <<>>
  /\ max_hops = MaxHops
  /\ pc = "idle"
  /\ fault = "none"
  /\ nodes = [t \in {} |-> 0]
  /\ procs = ModuleInstances
  /\ \E enabled \in BOOLEAN : ms = MetricsStore(MaxTraces, MaxErrors, enabled)
  /\ pending = <<>>
  /\ output = <<>>
  /\ suspended = NoInstance
  /\ inserted = <<>>
  /\ popped = <<>>
  /\ called = <<>>
  /\ mainpc = "waiting" /\ wpc = "recover" /\ stop_event = FALSE
  /\ todo = <<>> /\ claimed = NoFile
  /\ unprocessed = EmptyDir /\ underprocess = EmptyDir /\ processed = EmptyDir
  /\ clock = 0 /\ claims = 0 /\ runs = 1
  /\ faulty \in BOOLEAN
  /\ mutex = NoThread /\ threads = <<>>

\* The try block of process_file on a file holding `lines`: build_routing,
\* then write_output over run_router.  opened tells whether write_output got
\* to open the output file; output is what it wrote to it.
process_file_try(cfg, lines, procs0, ms0, limit, suspended0) ==
  CHOOSE result \in
    { IF b.error # "none"
      THEN [fault |-> b.error, opened |-> FALSE, output |-> <<>>, ms |-> b.ms,
            procs |-> b.procs, suspended |-> suspended0]
      ELSE run_router(StartTag(cfg), lines, b.nodes, b.procs, b.ms, limit, suspended0)
      : b \in {build_routing(cfg, procs0, ms0)} } : TRUE

\* The engine's variables that the monitor does not use, and the clients.
unused == <<input, nodes, pending, inserted, popped, called, pc, clients>>

\* What the moves of the monitor leave alone.
engine_state == <<config, max_hops, faulty, fault, procs, ms, output, suspended, unused>>

\* Whether a shutil.move goes through: it always does unless moves can raise.
MoveOutcomes == IF faulty THEN BOOLEAN ELSE {TRUE}

\* Somebody puts a file into unprocessed/.
Arrive ==
  /\ mainpc # "single" /\ clock < MaxFiles
  /\ \E name \in FileNames :
        /\ name \notin DOMAIN unprocessed
        /\ unprocessed' = With(unprocessed, name, SourceFile(clock + 1, FileContent(name)))
  /\ clock' = clock + 1
  /\ UNCHANGED <<engine_state, mainpc, wpc, stop_event, todo, claimed, claims, runs,
                 underprocess, processed>>

\* A recovery that leaves the item where it is.
RecoverOne_skip ==
  /\ wpc = "recover" /\ todo # <<>>
  /\ todo' = Tail(todo)
  /\ UNCHANGED <<engine_state, mainpc, wpc, stop_event, claimed, clock, claims, runs,
                 queue_dirs>>

\* recover_underprocess, one iteration: the item is moved back to
\* unprocessed/ under its name, or the move fails and is reported.
RecoverOne ==
  /\ wpc = "recover" /\ todo # <<>>
  /\ LET item == Head(todo)
     IN  \E moved \in MoveOutcomes :
           IF moved /\ item \in DOMAIN underprocess
           THEN LET mv == shutil_move(underprocess, unprocessed, item, item)
                IN  underprocess' = mv.src /\ unprocessed' = mv.dst
           ELSE UNCHANGED <<underprocess, unprocessed>>
  /\ todo' = Tail(todo)
  /\ UNCHANGED <<engine_state, mainpc, wpc, stop_event, claimed, clock, claims, runs,
                 processed>>

\* recover_underprocess returns and the monitor enters its loop.
RecoverDone ==
  /\ wpc = "recover" /\ todo = <<>>
  /\ wpc' = "poll"
  /\ UNCHANGED <<engine_state, mainpc, stop_event, todo, claimed, clock, claims, runs,
                 queue_dirs>>

\* `while not stop_event.is_set()` finds the event set: monitor_folder returns.
MonitorStop ==
  /\ wpc = "poll" /\ stop_event
  /\ wpc' = "stopped"
  /\ UNCHANGED <<engine_state, mainpc, stop_event, todo, claimed, clock, claims, runs,
                 queue_dirs>>

\* The loop body lists the candidates, oldest first.  (With none it sleeps
\* and comes back to the loop test.)
ListCandidates ==
  /\ wpc = "poll" /\ ~stop_event
  /\ Candidates(unprocessed) # <<>>
  /\ todo' = Candidates(unprocessed)
  /\ wpc' = "claim"
  /\ UNCHANGED <<engine_state, mainpc, stop_event, claimed, clock, claims, runs, queue_dirs>>

\* `for candidate in candidates`: the candidate is moved to underprocess/, or
\* the move fails and the candidate is skipped.
Claim ==
  /\ wpc = "claim" /\ todo # <<>> /\ claims < MaxClaims
  /\ LET candidate == Head(todo)
     IN  \E moved \in MoveOutcomes :
           IF moved /\ candidate \in DOMAIN unprocessed
           THEN LET mv == shutil_move(unprocessed, underprocess, candidate, candidate)
                IN  /\ unprocessed' = mv.src /\ underprocess' = mv.dst
                    /\ claimed' = candidate
                    /\ wpc' = "claimed"
           ELSE UNCHANGED <<unprocessed, underprocess, claimed, wpc>>
  /\ todo' = Tail(todo)
  /\ claims' = claims + 1
  /\ UNCHANGED <<engine_state, mainpc, stop_event, clock, runs, processed>>

\* The for loop is over: back to the loop test.
PassDone ==
  /\ wpc = "claim" /\ todo = <<>>
  /\ wpc' = "poll"
  /\ UNCHANGED <<engine_state, mainpc, stop_event, todo, claimed, clock, claims, runs,
                 queue_dirs>>

\* process_file up to its try block: current_file is set.
ProcessFileBegin ==
  /\ wpc = "claimed"
  /\ ms' = set_current_file(ms, claimed)
  /\ wpc' = "process"
  /\ UNCHANGED <<config, max_hops, faulty, fault, procs, output, suspended, unused, mainpc,
                 stop_event, todo, claimed, clock, claims, runs, queue_dirs>>

\* A write_output that opens the file for appending.
write_output_append(dir, name, lines) ==
  With(dir, name,
       OutputFile((IF name \in DOMAIN dir THEN dir[name].content ELSE <<>>) \o lines))

\* write_output to a file: open(output_file, "w") makes the file or empties
\* it, and the lines are written to it.
write_output(dir, name, lines) == With(dir, name, OutputFile(lines))

\* What the try block of process_file does with the claimed file.
Processing ==
  { process_file_try(config, underprocess[claimed].content, procs, ms, max_hops,
                     suspended) }

\* process_file, the try block without an exception: the output is written to
\* processed/<name>.out, the file recorded as processed, current_file
\* cleared and True returned.
ProcessFileOk ==
  /\ wpc = "process" /\ claimed \in DOMAIN underprocess
  /\ \E r \in Processing :
         /\ r.fault = "none"
         /\ processed' = write_output(processed, OutName(claimed), r.output)
         /\ ms' = set_current_file(record_processed_file(r.ms, claimed), NoFile)
         /\ procs' = r.procs
         /\ suspended' = r.suspended
         /\ output' = r.output
         /\ fault' = r.fault
  /\ wpc' = "commit"
  /\ UNCHANGED <<config, max_hops, faulty, unused, mainpc, stop_event, todo, claimed, clock, claims,
                 runs, unprocessed, underprocess>>

\* process_file, the try block with an exception: the output file, if it was
\* opened, holds what was written; the error is recorded under
\* "file_processor", current_file cleared and False returned.
ProcessFileFail ==
  /\ wpc = "process" /\ claimed \in DOMAIN underprocess
  /\ \E r \in Processing :
         /\ r.fault # "none"
         /\ processed' = IF r.opened
                         THEN write_output(processed, OutName(claimed), r.output)
                         ELSE processed
         /\ ms' = set_current_file(record_error(r.ms, "file_processor", r.fault, claimed),
                                   NoFile)
         /\ procs' = r.procs
         /\ suspended' = r.suspended
         /\ output' = r.output
         /\ fault' = r.fault
  /\ wpc' = "retry"
  /\ UNCHANGED <<config, max_hops, faulty, unused, mainpc, stop_event, todo, claimed, clock, claims,
                 runs, unprocessed, underprocess>>

\* `if ok`: the claimed file is moved to processed/, under <name>.dup when
\* <name> is there, or the move fails and is reported.
Commit ==
  /\ wpc = "commit"
  /\ LET dest == IF claimed \in DOMAIN processed THEN DupName(claimed) ELSE claimed
     IN  \E moved \in MoveOutcomes :
           IF moved /\ claimed \in DOMAIN underprocess
           THEN LET mv == shutil_move(underprocess, processed, claimed, dest)
                IN  underprocess' = mv.src /\ processed' = mv.dst
           ELSE UNCHANGED <<underprocess, processed>>
  /\ claimed' = NoFile
  /\ wpc' = "claim"
  /\ UNCHANGED <<engine_state, mainpc, stop_event, todo, clock, claims, runs, unprocessed>>

\* `else`: the claimed file is moved back to unprocessed/, under <name>.retry
\* when <name> is there, or the move fails and is reported.
Retry ==
  /\ wpc = "retry"
  /\ LET retry_dest == IF claimed \in DOMAIN unprocessed THEN RetryName(claimed)
                       ELSE claimed
     IN  \E moved \in MoveOutcomes :
           IF moved /\ claimed \in DOMAIN underprocess
           THEN LET mv == shutil_move(underprocess, unprocessed, claimed, retry_dest)
                IN  underprocess' = mv.src /\ unprocessed' = mv.dst
           ELSE UNCHANGED <<underprocess, unprocessed>>
  /\ claimed' = NoFile
  /\ wpc' = "claim"
  /\ UNCHANGED <<engine_state, mainpc, stop_event, todo, clock, claims, runs, processed>>

\* The generator a raise left suspended at a yield is closed when the
\* exception that holds it is released.
WatchCloseGenerator ==
  /\ wpc \notin {"off", "dead"}
  /\ CloseGenerator

\* KeyboardInterrupt in main.run: the event is set and the thread joined.
Interrupt ==
  /\ mainpc = "waiting"
  /\ stop_event' = TRUE
  /\ mainpc' = "joining"
  /\ UNCHANGED <<engine_state, wpc, todo, claimed, clock, claims, runs, queue_dirs>>

\* The process is gone: its threads stop where they are and its memory is
\* lost.  When it was inside process_file, the output file may have been
\* opened, and then holds a part of what was to be written.
ProcessGone ==
  /\ wpc' = "dead"
  /\ fault' = "none"
  /\ procs' = ModuleInstances
  /\ ms' = MetricsStore(MaxTraces, MaxErrors, ms.trace_enabled)
  /\ output' = <<>>
  /\ suspended' = NoInstance
  /\ todo' = <<>> /\ claimed' = NoFile
  /\ \/ processed' = processed
     \/ /\ wpc = "process" /\ claimed \in DOMAIN underprocess
        /\ \E r \in Processing :
              /\ r.opened
              /\ \E k \in 0..Len(r.output) :
                    processed' = write_output(processed, OutName(claimed),
                                              SubSeq(r.output, 1, k))
  /\ UNCHANGED <<config, max_hops, faulty, unused, stop_event, clock, claims, runs, unprocessed,
                 underprocess>>

\* monitor_thread.join(timeout=2.0) returns, the monitor having returned or
\* not, and main.run returns: the process exits with its daemon threads.
JoinReturns ==
  /\ mainpc = "joining"
  /\ mainpc' = "returned"
  /\ ProcessGone

\* The process is killed.
Crash ==
  /\ mainpc \in {"waiting", "joining"}
  /\ mainpc' = "crashed"
  /\ ProcessGone

\* main.run is started again on the same directories.
Restart ==
  /\ wpc = "dead" /\ runs < MaxRuns
  /\ runs' = runs + 1
  /\ mainpc' = "waiting"
  /\ wpc' = "recover"
  /\ stop_event' = FALSE
  /\ todo' = SortNames(DOMAIN underprocess)
  /\ UNCHANGED <<engine_state, claimed, clock, claims, queue_dirs>>

WatchNext ==
  \/ Arrive
  \/ RecoverOne
  \/ RecoverDone
  \/ MonitorStop
  \/ ListCandidates
  \/ Claim
  \/ PassDone
  \/ ProcessFileBegin
  \/ ProcessFileOk
  \/ ProcessFileFail
  \/ WatchCloseGenerator
  \/ Commit
  \/ Retry
  \/ Interrupt
  \/ JoinReturns
  \/ Crash
  \/ Restart

WatchSpec == WatchInit /\ [][WatchNext]_vars

\* The steps of the monitor thread outside the try block of process_file.
MonitorStep ==
  \/ RecoverOne
  \/ RecoverDone
  \/ MonitorStop
  \/ ListCandidates
  \/ Claim
  \/ PassDone
  \/ ProcessFileBegin
  \/ Commit
  \/ Retry

\* The monitor thread keeps being scheduled for as long as the process lives:
\* a step it can take is taken, and it does not stay inside process_file for
\* ever (there one of ProcessFileOk and ProcessFileFail is always enabled).
MonitorFairness == WF_vars(MonitorStep) /\ []<>(wpc # "process")

\* Watch mode on a file system where no move raises.
ReliableInit == WatchInit /\ ~faulty

\* Watch mode with a fair monitor thread and moves that do not raise.
WatchFairSpec == ReliableInit /\ [][WatchNext]_vars /\ MonitorFairness

\* ------------------------------------------------------------- properties
\* The run is over: run_router returned, or something was raised.
\* ------------------------------------------------- the store's clients
\* The threads of a process that call the store: the main thread running the
\* engine, the monitor thread, and the dashboard's server thread.
Writers == {"main", "monitor"}
Readers == {"dashboard"}
Threads == Writers \cup Readers

\* The methods they call: those that change the store (record_metrics is
\* record_processor_metrics with success=False), and the projections.
WriterOps == {"record_metrics", "record_error", "start_trace", "complete_trace"}
ReaderOps == {"get_stats", "get_traces", "get_errors"}

\* The processor tag the writers record under, and the line they trace.
MeteredTag == "start"
TracedLine == <<"a">>

NoView == [op |-> "none", value |-> <<>>]
NoReg == [metrics |-> ProcessorMetrics, line_counter |-> 0]

\* A thread outside the store.  done counts its finished calls, per method.
IdleThread ==
  [pc |-> "idle", op |-> "none", reg |-> NoReg, line_id |-> 0, view |-> NoView,
   done |-> [o \in WriterOps \cup ReaderOps |-> 0]]

CallsOf(t) ==
  LET F[S \in SUBSET (WriterOps \cup ReaderOps)] ==
        IF S = {} THEN 0
        ELSE LET o == CHOOSE o \in S : TRUE IN threads[t].done[o] + F[S \ {o}]
  IN  F[WriterOps \cup ReaderOps]

\* main.run with the dashboard enabled: the store exists, with tracing on, and
\* no thread is inside it.
LockInit ==
  /\ config = Doc(NoStart, << NodeCfg("start", "Terminal", <<"end">>),
                              NodeCfg("end", "Terminal", <<>>) >>)
  /\ input = <<>> /\ max_hops = MaxHops /\ pc = "idle" /\ fault = "none"
  /\ nodes = [t \in {} |-> 0]
  /\ procs = ModuleInstances
  /\ ms = MetricsStore(MaxTraces, MaxErrors, TRUE)
  /\ pending = <<>> /\ output = <<>> /\ suspended = NoInstance
  /\ inserted = <<>> /\ popped = <<>> /\ called = <<>>
  /\ mainpc = "serving" /\ wpc = "off" /\ stop_event = FALSE
  /\ todo = <<>> /\ claimed = NoFile
  /\ unprocessed = EmptyDir /\ underprocess = EmptyDir /\ processed = EmptyDir
  /\ clock = 0 /\ claims = 0 /\ runs = 1 /\ faulty = FALSE
  /\ mutex = NoThread
  /\ threads = [t \in Threads |-> IdleThread]

\* What the store's clients leave alone.
outside_store == <<config, input, max_hops, pc, fault, nodes, procs, pending, output,
                   suspended, inserted, popped, called, monitor, queue_dirs>>

\* A lock that anyone can take at any time.
LockFree_always == TRUE

\* threading.Lock.acquire: it blocks while the lock is held
LockFree == mutex = NoThread

\* A thread calls a method of the store and enters its `with self.mutex`.
Acquire(t) ==
  /\ threads[t].pc = "idle" /\ CallsOf(t) < MaxCalls
  /\ LockFree
  /\ \E op \in IF t \in Writers THEN WriterOps ELSE ReaderOps :
        /\ op = "start_trace" => threads[t].line_id = 0
        /\ op = "complete_trace" => threads[t].line_id # 0
        /\ threads' = [threads EXCEPT ![t].pc = "holding", ![t].op = op]
  /\ mutex' = t
  /\ UNCHANGED <<ms, outside_store>>

\* A writer reads the fields its method goes on to update: metrics.count,
\* total_time and errors of the tag, and _line_counter.
LoadFields(t) ==
  /\ t \in Writers /\ threads[t].pc = "holding"
  /\ threads' = [threads EXCEPT ![t].pc = "loaded",
                                ![t].reg = [metrics |-> MetricsOf(ms, MeteredTag),
                                            line_counter |-> ms.line_counter]]
  /\ UNCHANGED <<ms, mutex, outside_store>>

\* The writer's method computes from what it read and writes the fields back.
StoreFields(t) ==
  /\ threads[t].pc = "loaded"
  /\ LET th   == threads[t]
         seen == WithMetrics(ms, MeteredTag, th.reg.metrics)
     IN  CASE th.op = "record_metrics" ->
                /\ ms' = record_processor_metrics(seen, MeteredTag, ExecutionTime, FALSE)
                /\ threads' = [threads EXCEPT ![t].pc = "stored"]
           [] th.op = "record_error" ->
                /\ ms' = record_error(seen, MeteredTag, "StageError", TracedLine)
                /\ threads' = [threads EXCEPT ![t].pc = "stored"]
           [] th.op = "start_trace" ->
                LET r == start_trace([ms EXCEPT !.line_counter = th.reg.line_counter],
                                     TracedLine)
                IN  /\ ms' = r.ms
                    /\ threads' = [threads EXCEPT ![t].pc = "stored",
                                                  ![t].line_id = r.line_id]
           [] th.op = "complete_trace" ->
                /\ ms' = complete_trace(ms, th.line_id, TracedLine)
                /\ threads' = [threads EXCEPT ![t].pc = "stored", ![t].line_id = 0]
  /\ UNCHANGED <<mutex, outside_store>>

\* A reader's method builds what it returns: asdict of every entry, a list
\* of its own.
TakeCopy(t) ==
  /\ t \in Readers /\ threads[t].pc = "holding"
  /\ \E limit \in 1..MaxTraces :
        LET op == threads[t].op
            value == CASE op = "get_stats"  -> get_stats(ms)
                       [] op = "get_traces" -> get_traces(ms, limit, <<>>, "", "")
                       [] op = "get_errors" -> get_errors(ms, limit)
        IN  threads' = [threads EXCEPT ![t].pc = "stored",
                                      ![t].view = [op |-> op, value |-> value]]
  /\ UNCHANGED <<ms, mutex, outside_store>>

\* with self.mutex: left, and the method returns.
Release(t) ==
  /\ threads[t].pc = "stored"
  /\ mutex' = IF mutex = t THEN NoThread ELSE mutex
  /\ threads' = [threads EXCEPT ![t].pc = "idle", ![t].op = "none", ![t].reg = NoReg,
                                ![t].done[threads[t].op] = @ + 1]
  /\ UNCHANGED <<ms, outside_store>>

LockNext ==
  \E t \in Threads :
     \/ Acquire(t)
     \/ LoadFields(t)
     \/ StoreFields(t)
     \/ TakeCopy(t)
     \/ Release(t)

LockSpec == LockInit /\ [][LockNext]_vars

\* --------------------------------------------------------------- properties
Returned == pc = "done"
Raised == pc \in {"raised", "exit_error"}

\* The type of the processor a node tag is bound to.
TypeOf(tag) == procs[nodes[tag].processor].type

\* No node of the table is bound to a processor that keeps state between calls.
Stateless == \A t \in DOMAIN nodes : TypeOf(t) # "LineCounter"

\* An envelope without its trace id.
Bare(env) == [tag |-> env.tag, line |-> env.line, hops |-> env.hops]
BareSeq(s) == [i \in 1..Len(s) |-> Bare(s[i])]

IsPrefix(s, t) == Len(s) <= Len(t) /\ s = SubSeq(t, 1, Len(s))

RECURSIVE PathEnds(_, _, _)
RECURSIVE PairsEnds(_, _)
RECURSIVE TagsEnds(_, _, _)
\* The bag of lines that reach `end` on the paths that start with an envelope
\* (tag, line), following what each stage emits, for `fuel` stage invocations.
PathEnds(tag, line, fuel) ==
  IF tag = "end" THEN SetToBag({line})
  ELSE IF fuel = 0 \/ tag \notin DOMAIN nodes THEN EmptyBag
  ELSE PairsEnds(process(TypeOf(tag), line, 0).pairs, fuel - 1)
PairsEnds(pairs, fuel) ==
  IF pairs = <<>> THEN EmptyBag
  ELSE TagsEnds(Head(pairs).tags, Head(pairs).line, fuel) (+) PairsEnds(Tail(pairs), fuel)
TagsEnds(tags, line, fuel) ==
  IF tags = <<>> THEN EmptyBag
  ELSE PathEnds(Head(tags), line, fuel) (+) TagsEnds(Tail(tags), line, fuel)

RECURSIVE InputEnds(_)
InputEnds(lines) ==
  IF lines = <<>> THEN EmptyBag
  ELSE PathEnds(StartTag(config), Head(lines), max_hops + 1) (+) InputEnds(Tail(lines))

\* C1: when run_router returns without error, the multiset of the lines it
\* yielded is the multiset of the lines of the envelopes that were routed to
\* `end` (at any moment nothing else has been yielded), and with stateless
\* stages it is the multiset of the lines that reach `end` along the paths from
\* each input line at the start tag.
C1_OutputIsWhatReachedEnd ==
  /\ SeqToBag(output) \sqsubseteq SeqToBag(SelectLines(inserted, "end"))
  /\ Returned => SeqToBag(output) = SeqToBag(SelectLines(inserted, "end"))
  /\ Returned /\ Stateless => SeqToBag(output) = InputEnds(input)

\* A run that fanned out and returned: two lines in, more lines out, one of
\* them rewritten on the way.
C1_Witness ==
  /\ Returned /\ Len(input) = 2 /\ Len(output) > 2
  /\ \E i \in 1..Len(output) : \A j \in 1..Len(input) : output[i] # input[j]

RECURSIVE Emitted(_, _)
\* The envelopes one stage call enqueues for its pairs: pair by pair, and for
\* a pair tag by tag.
Emitted(pairs, hops) ==
  IF pairs = <<>> THEN <<>>
  ELSE [j \in 1..Len(Head(pairs).tags) |->
          [tag |-> Head(pairs).tags[j], line |-> Head(pairs).line, hops |-> hops]]
       \o Emitted(Tail(pairs), hops)

RECURSIVE EmittedByCalls(_)
\* What the stage calls made so far enqueue, call by call.
EmittedByCalls(calls) ==
  IF calls = <<>> THEN <<>>
  ELSE EmittedByCalls(SubSeq(calls, 1, Len(calls) - 1))
       \o Emitted(process(TypeOf(Last(calls).tag), Last(calls).line, 0).pairs,
                  Last(calls).hops + 1)

HopsOf(s) == [i \in 1..Len(s) |-> s[i].hops]

\* C2: no processor is ever invoked for an envelope whose hops exceeds
\* max_hops; the initial envelopes have hops 0 and every envelope a stage call
\* enqueues has the hops of the envelope processed plus 1; an envelope popped
\* with another tag than `end` and hops > max_hops makes run_router raise the
\* hop-limit error, and it is the last one popped.
C2_HopsBounded ==
  /\ \A i \in 1..Len(called) : called[i].hops <= max_hops
  /\ nodes # <<>> /\ pc \notin {"start", "built"} =>
       LET expected == HopsOf(BareSeq(InitialPending(StartTag(config), input)))
                       \o HopsOf(EmittedByCalls(called))
       IN  IF fault = "none" THEN HopsOf(inserted) = expected
           ELSE IsPrefix(HopsOf(inserted), expected)
  /\ \A i \in 1..Len(popped) :
        popped[i].tag # "end" /\ popped[i].hops > max_hops
          => i = Len(popped) /\ Raised /\ fault = "hop_limit"

\* A line went round a loop until its hops exceeded max_hops = 2.
C2_Witness ==
  /\ fault = "hop_limit" /\ max_hops = 2 /\ Len(called) >= 3
  /\ Last(popped).hops = 3 /\ Last(called).hops = 2

\* The stage of the loop scenario: start forwards to `next`, which re-emits
\* every line to itself.
IsLoopConfig ==
  /\ StartTag(config) = "start"
  /\ {config.nodes[i].tag : i \in 1..Len(config.nodes)} = {"start", "next", "end"}
  /\ \A i \in 1..Len(config.nodes) :
        config.nodes[i].tag \in {"start", "next"} => config.nodes[i].type = "Forward"

\* C3: with start -> next and next re-emitting to itself, a one-line input
\* yields no output line and never returns normally; the stage is invoked for
\* hops 0..max_hops, and then run_router raises the hop-limit error with exactly
\* one error recorded, under "router", for that line.
C3_LoopHitsHopLimit ==
  IsLoopConfig /\ Len(input) = 1 =>
    /\ output = <<>>
    /\ ~Returned
    /\ Len(called) <= max_hops + 1
    /\ Raised =>
         /\ fault = "hop_limit"
         /\ Len(called) = max_hops + 1
         /\ MetricsOf(ms, "router").errors = 1
         /\ CountProcessor(ms.errors, "router") = 1
    /\ pc = "raised" =>
         /\ Len(ms.errors) = 1
         /\ ms.errors[1] = [processor |-> "router", message |-> "RuntimeError",
                            line_content |-> input[1]]

\* The scenario with H = 4, after the raise.
C3_Witness ==
  /\ IsLoopConfig /\ Len(input) = 1 /\ max_hops = 4
  /\ pc = "raised" /\ fault = "hop_limit"

\* C4: the queue is first-in first-out: the envelopes popped so far, followed
\* by those still pending, are all the envelopes inserted, in insertion order;
\* the first inserted are the input lines in order at the start tag, and after
\* them come the envelopes of each stage call in call order, pair by pair and
\* tag by tag (all of them unless the call raised).
C4_Fifo ==
  /\ inserted = popped \o pending
  /\ pc \notin {"start", "built"} /\ nodes # <<>> =>
        IsPrefix(InitialPending(StartTag(config), input), inserted)
  /\ Stateless /\ nodes # <<>> /\ pc \notin {"start", "built"} =>
       LET expected == BareSeq(InitialPending(StartTag(config), input))
                       \o EmittedByCalls(called)
       IN  IF fault = "none" THEN BareSeq(inserted) = expected
           ELSE IsPrefix(BareSeq(inserted), expected)

\* Two lines were split into parts, and the parts of the first line were
\* popped before those of the second.
C4_Witness ==
  /\ Len(input) = 2 /\ Len(called) >= 3 /\ Len(popped) >= 5
  /\ \E i \in 1..Len(called) : Len(process(TypeOf(called[i].tag), called[i].line, 0).pairs) > 1
  /\ \E i \in 1..Len(called) :
        \E j \in 1..Len(process(TypeOf(called[i].tag), called[i].line, 0).pairs) :
           Len(process(TypeOf(called[i].tag), called[i].line, 0).pairs[j].tags) > 1

\* The build succeeded and the start node is bound to a stage of this type.
StartsWith(type) ==
  /\ nodes # <<>> /\ StartTag(config) = "start" /\ TypeOf("start") = type

\* C5: when the start stage emits (["end"], line) with the line unchanged, the
\* lines yielded are at any moment the first input lines in input order, and
\* at return they are the input: same lines, same number, same order; nothing
\* is raised.
C5_IdentityStage ==
  StartsWith("Terminal") =>
    /\ IsPrefix(output, input)
    /\ fault = "none"
    /\ Returned => output = input

\* Two different lines went through the identity stage and the run returned.
C5_Witness ==
  /\ StartsWith("Terminal") /\ Returned
  /\ Len(input) = 2 /\ input[1] # input[2] /\ Len(output) = 2

RECURSIVE Copies(_, _)
\* A bag holding the line once per occurrence of `end` in the tag-list.
Copies(tags, line) ==
  IF tags = <<>> THEN EmptyBag
  ELSE (IF Head(tags) = "end" THEN SetToBag({line}) ELSE EmptyBag) (+) Copies(Tail(tags), line)

RECURSIVE PairsCopies(_)
PairsCopies(pairs) ==
  IF pairs = <<>> THEN EmptyBag
  ELSE Copies(Head(pairs).tags, Head(pairs).line) (+) PairsCopies(Tail(pairs))

RECURSIVE EndCopies(_)
\* One copy of the emitted line per occurrence of `end` in the tag-lists the
\* stage calls emitted.
EndCopies(calls) ==
  IF calls = <<>> THEN EmptyBag
  ELSE PairsCopies(process(TypeOf(Head(calls).tag), Head(calls).line, 0).pairs)
       (+) EndCopies(Tail(calls))

\* Every line of s twice in a row.
Doubled(s) == [i \in 1..(2 * Len(s)) |-> s[(i + 1) \div 2]]

\* C6: at return, the yielded lines are one copy of the emitted line for every
\* occurrence of `end` in a tag-list a stage emitted, whatever other tags the
\* list holds (stateless stages, start tag not `end`); with a start stage that
\* emits (["end", "end"], line) every input line is yielded exactly twice.
C6_EndCopies ==
  /\ Returned /\ Stateless /\ StartTag(config) # "end" =>
        SeqToBag(output) = EndCopies(called)
  /\ ~Returned /\ Stateless /\ nodes # <<>> /\ StartTag(config) # "end" =>
        SeqToBag(output) \sqsubseteq EndCopies(called)
  /\ StartsWith("DualEnd") /\ Returned => output = Doubled(input)

\* A start stage emitted ["end", "next"], the next one ["end", "end"], and the
\* run returned with three copies of each of two lines.
C6_Witness ==
  /\ Returned /\ StartsWith("Fan") /\ TypeOf("next") = "DualEnd"
  /\ Len(input) = 2 /\ Len(output) = 6

\* The state of the queue, the output and the histories.
engine == <<pending, output, inserted, popped, called>>

\* An envelope the loop body can neither yield nor dispatch.
IsUnroutable(env) == env.tag # "end" /\ env.tag \notin DOMAIN nodes

C7_State ==
  /\ \A i \in 1..Len(popped) :
        IsUnroutable(popped[i]) /\ popped[i].hops <= max_hops =>
           /\ i = Len(popped)
           /\ Raised /\ fault = "unknown_tag"
  /\ \A k \in 1..Len(called) : ~IsUnroutable(called[k])
  /\ fault = "unknown_tag" =>
        /\ Raised
        /\ IsUnroutable(Last(popped))
        /\ MetricsOf(ms, "router").errors = 1
        /\ CountProcessor(ms.errors, "router") = 1
        /\ pc = "raised" =>
              Last(ms.errors) = [processor |-> "router", message |-> "KeyError",
                                 line_content |-> Last(popped).line]

\* C7: an envelope popped with a tag that is neither `end` nor a node (and
\* hops within the limit) is the last one popped: no stage is invoked for it,
\* run_router raises the unknown-tag error with exactly one error recorded
\* under "router" for its line, and from then on the queue, the output and the
\* stage calls do not change.
C7_UnknownTagFatal ==
  []C7_State /\ [][fault = "unknown_tag" => (engine' = engine)]_vars

\* The start tag names no node: the first envelope raised, the second is
\* still in the queue.
C7_Witness ==
  /\ pc = "raised" /\ fault = "unknown_tag"
  /\ Len(popped) = 1 /\ Len(pending) = 1 /\ called = <<>> /\ output = <<>>

EmitFaults == {"tags_not_a_list", "empty_tags", "unknown_emitted_tag"}

\* The fault the first invalid pair of a reply causes, "none" if all are valid.
RECURSIVE FirstInvalid(_)
FirstInvalid(pairs) ==
  IF pairs = <<>> THEN "none"
  ELSE IF ~Head(pairs).islist THEN "tags_not_a_list"
  ELSE IF Head(pairs).tags = <<>> THEN "empty_tags"
  ELSE IF \E j \in 1..Len(Head(pairs).tags) :
             Head(pairs).tags[j] # "end" /\ Head(pairs).tags[j] \notin DOMAIN nodes
  THEN "unknown_emitted_tag"
  ELSE FirstInvalid(Tail(pairs))

\* What the stage invoked for an envelope yields to the router.
YieldsFor(env) == Call(procs[nodes[env.tag].processor], env.line, ms).yields

C8_State ==
  /\ \A k \in 1..Len(called) :
        FirstInvalid(YieldsFor(called[k])) # "none" =>
           /\ k = Len(called)
           /\ Raised /\ fault = FirstInvalid(YieldsFor(called[k]))
  /\ fault \in EmitFaults =>
        /\ Raised
        /\ fault = FirstInvalid(YieldsFor(Last(called)))
        /\ Last(popped) = Last(called)
        /\ MetricsOf(ms, Last(called).tag).errors = 1
        /\ CountProcessor(ms.errors, Last(called).tag) = 1
        /\ CountProcessor(ms.errors, "router") = 0
        /\ pc = "raised" =>
              /\ Last(ms.errors).processor = Last(called).tag
              /\ Last(ms.errors).line_content = Last(called).line

\* C8: when a stage yields a pair whose tag-list is not a list, is empty, or
\* holds a tag that is neither a node nor `end`, that call is the last one:
\* run_router raises, exactly one error is recorded, under the tag of the
\* emitting stage and for the line it was given, and from then on the queue,
\* the output and the stage calls do not change.
C8_BadEmissionFatal ==
  []C8_State /\ [][(fault \in EmitFaults) => (engine' = engine)]_vars

\* After a line was yielded, a stage emitted an empty tag-list while
\* envelopes were still in the queue.
C8_Witness ==
  /\ pc = "raised" /\ fault = "empty_tags"
  /\ output # <<>> /\ pending # <<>>

RoutingFaults == {"unknown_tag", "hop_limit"} \cup EmitFaults

\* C9 as stated: every routing error is recorded under "router".
C9_AllUnderRouter ==
  pc = "raised" /\ fault \in RoutingFaults => Last(ms.errors).processor = "router"

C9_State ==
  /\ fault \in RoutingFaults => Raised
  /\ pc = "raised" /\ fault \in {"unknown_tag", "hop_limit"} =>
        /\ Last(ms.errors).processor = "router"
        /\ Last(ms.errors).line_content = Last(popped).line
  /\ pc = "raised" /\ fault \in EmitFaults =>
        /\ Last(ms.errors).processor = Last(called).tag
        /\ Last(ms.errors).line_content = Last(called).line

\* C9 (amended): an unknown tag at dispatch and an exceeded hop limit are
\* recorded under "router"; an empty or non-list tag-list and an emitted
\* unknown tag are recorded under the tag of the emitting stage; each of them
\* is fatal: run_router raises and nothing more is popped, enqueued or yielded.
C9_RoutingErrorsRecorded ==
  []C9_State /\ [][(fault \in RoutingFaults) => (engine' = engine)]_vars

\* A stage emitted an unknown tag next to `end`, and a hop limit was hit
\* elsewhere: here the first.
C9_Witness ==
  /\ pc = "raised" /\ fault = "unknown_emitted_tag"
  /\ Last(ms.errors).processor = "next"

\* C10 as stated: when a stage raises, exactly one error entry is recorded
\* under the tag of that stage, with the line it was processing.
C10_StageErrorRecorded ==
  pc = "raised" /\ fault = "stage_error" =>
    /\ CountProcessor(ms.errors, Last(called).tag) = 1
    /\ Last(ms.errors) = [processor |-> Last(called).tag, message |-> "StageError",
                          line_content |-> Last(called).line]

\* The stage invoked in this step emitted no pair and did not raise.
EmittedNothing ==
  /\ called' # called
  /\ LET env == Last(called')
         r   == process(TypeOf(env.tag), env.line, procs[nodes[env.tag].processor].count)
     IN  r.pairs = <<>> /\ ~r.raises

\* C11: a stage call that emits zero pairs yields nothing, completes no
\* trace, records no error and raises nothing: it only takes its envelope off
\* the queue, and the loop goes on with the envelopes that remain.  When the
\* start stage drops every line, run_router returns with no output, no
\* completed trace and no error.
C11_DropIsSilent ==
  /\ [](Returned /\ StartsWith("Drop") =>
          /\ output = <<>> /\ ms.traces = <<>> /\ ms.errors = <<>>
          /\ Len(called) = Len(input))
  /\ [][EmittedNothing =>
          /\ output' = output
          /\ ms'.traces = ms.traces
          /\ ms'.errors = ms.errors
          /\ MetricsOf(ms', Last(called').tag).errors = MetricsOf(ms, Last(called').tag).errors
          /\ fault' = "none" /\ pc' = "routing"
          /\ pending' = Tail(pending) /\ inserted' = inserted]_vars

\* With tracing on, a stage after a fan-out dropped both lines it was given,
\* the second while the queue still held an envelope, and the run returned
\* with the lines that went to `end`.
C11_Witness ==
  /\ Returned /\ ms.trace_enabled
  /\ StartsWith("Fan") /\ TypeOf("next") = "Drop"
  /\ Len(input) = 2 /\ Len(called) = 4 /\ output = input
  /\ ms.errors = <<>>

\* C12 as stated: every envelope ever placed in the work queue has a tag that
\* is a key of the node table or `end`.
C12_EnvelopeTagsKnown ==
  pc \notin {"start", "built"} =>
    \A i \in 1..Len(inserted) : inserted[i].tag \in (DOMAIN nodes) \cup {"end"}

\* What a config document says, read without loading it.
ConfigTags(cfg) == { cfg.nodes[i].tag : i \in 1..Len(cfg.nodes) }
TypesResolve(cfg) == \A i \in 1..Len(cfg.nodes) : cfg.nodes[i].type \in ProcessorTypes
RoutesResolve(cfg) ==
  \A i \in 1..Len(cfg.nodes) : \A j \in 1..Len(cfg.nodes[i].routes) :
     cfg.nodes[i].routes[j] \in ConfigTags(cfg) \cup {"end"}
HasDuplicateTags(cfg) ==
  \E i, j \in 1..Len(cfg.nodes) : i # j /\ cfg.nodes[i].tag = cfg.nodes[j].tag

\* What build_routing raises.
BuildFaults == {"unresolved_type", "no_start_node", "no_end_node", "unknown_route"}

\* build_routing was called and raised / returned.
Rejected == pc \in {"raised", "exit_error"} /\ fault \in BuildFaults
Accepted == pc # "start" /\ fault \notin BuildFaults

\* C13 as stated: a config with a start node and no node tagged `end`, whose
\* types and routes resolve, is accepted by build_routing.
C13_EndNotRequired ==
  /\ pc # "start" /\ "start" \in ConfigTags(config) /\ "end" \notin ConfigTags(config)
  /\ TypesResolve(config) /\ RoutesResolve(config)
  => Accepted

\* C13 (amended): build_routing rejects a config that has a start node and no
\* node tagged `end` (no line is then enqueued or dispatched); with an `end`
\* node present, `end` is a valid route target, and the processor of the `end`
\* node is never invoked: an envelope tagged `end` is yielded.
C13_EndNodeRequired ==
  pc # "start" =>
    /\ "end" \notin ConfigTags(config) =>
          Rejected /\ nodes = <<>> /\ inserted = <<>> /\ called = <<>>
    /\ TypesResolve(config) /\ "start" \in ConfigTags(config)
          /\ "end" \notin ConfigTags(config) => fault = "no_end_node"
    /\ TypesResolve(config) /\ {"start", "end"} \subseteq ConfigTags(config)
          /\ RoutesResolve(config) => Accepted /\ "end" \in DOMAIN nodes
    /\ \A k \in 1..Len(called) : called[k].tag # "end"

\* A config with a start node that routes to `end`, and no `end` node, was
\* rejected for the missing `end` node.
C13_Witness ==
  /\ pc = "raised" /\ fault = "no_end_node"
  /\ "start" \in ConfigTags(config) /\ RoutesResolve(config) /\ input # <<>>

\* C14 as stated: a config in which two entries have the same tag is rejected
\* before any line is dispatched.
C14_DuplicateTagsRejected ==
  pc # "start" /\ HasDuplicateTags(config) => Rejected /\ called = <<>>

\* C15 as stated: the start check passes exactly when the tag the `start`
\* field names (default "start") is the tag of a node, and when it is not the
\* config is rejected before the engine starts.
C15_StartFieldValidated ==
  pc # "start" /\ TypesResolve(config) =>
    /\ (fault # "no_start_node") <=> (StartTag(config) \in ConfigTags(config))
    /\ StartTag(config) \notin ConfigTags(config) => Rejected /\ inserted = <<>>

\* C16 as stated: in watch mode a configuration error ends the run, and is
\* never handled as a failure of the file being processed: the monitor is
\* never about to move a file back for retry because build_routing raised.
C16_ConfigErrorTerminates == ~(wpc = "retry" /\ fault \in BuildFaults)

\* The places (directory, name) where the id-th source file that arrived is.
PlacesOf(id) ==
  { <<"unprocessed", n>> : n \in { m \in DOMAIN unprocessed :
        unprocessed[m].kind = "source" /\ unprocessed[m].id = id } }
  \cup { <<"underprocess", n>> : n \in { m \in DOMAIN underprocess :
        underprocess[m].kind = "source" /\ underprocess[m].id = id } }
  \cup { <<"processed", n>> : n \in { m \in DOMAIN processed :
        processed[m].kind = "source" /\ processed[m].id = id } }

\* C17 as stated: no file name is in two of the lifecycle directories at once.
C17_OneDirectoryPerName ==
  /\ DOMAIN unprocessed \cap DOMAIN underprocess = {}
  /\ DOMAIN unprocessed \cap DOMAIN processed = {}
  /\ DOMAIN underprocess \cap DOMAIN processed = {}

\* C17, amended: every source file that arrived is in at most one place of the
\* lifecycle directories, whatever moves were made; two files that arrived
\* under the same name may be in two directories at once.
C17_OneDirectoryPerFile == \A id \in 1..clock : Cardinality(PlacesOf(id)) <= 1

\* Both files arrived as x.txt and both were committed: the second one as
\* x.txt.dup, each in one place.
C17_Witness ==
  /\ <<"x.txt">> \in DOMAIN processed /\ DupName(<<"x.txt">>) \in DOMAIN processed
  /\ processed[<<"x.txt">>].id # processed[DupName(<<"x.txt">>)].id
  /\ \A id \in 1..clock : Cardinality(PlacesOf(id)) = 1

\* The id-th source file that arrived is in exactly one place, which is in
\* unprocessed/ or in processed/.
Settled(id) ==
  /\ Cardinality(PlacesOf(id)) = 1
  /\ \A place \in PlacesOf(id) : place[1] \in {"unprocessed", "processed"}

\* C18 as stated, for the clean shutdown: once main.run has returned after
\* the cancellation, every file that arrived is in exactly one of
\* unprocessed/ and processed/, and none is in underprocess/.
C18_CleanShutdownSettlesFiles ==
  mainpc = "returned" => underprocess = EmptyDir /\ \A id \in 1..clock : Settled(id)

\* C19 as stated: while the daemon runs underprocess/ holds at most one file,
\* and none when the monitor is between two files.
C19_AtMostOneUnderprocess ==
  wpc \notin {"off", "dead"} =>
     /\ Cardinality(DOMAIN underprocess) <= 1
     /\ wpc \in {"poll", "claim", "stopped"} => underprocess = EmptyDir

\* A file of this name is processed without an error under the config.
Succeeds(name) ==
  process_file_try(config, FileContent(name), ModuleInstances,
                   MetricsStore(MaxTraces, MaxErrors, ms.trace_enabled), max_hops,
                   NoInstance).fault = "none"

\* The monitor has just started and found the id-th file in underprocess/
\* under this name.
FoundAtStartup(name, id) ==
  /\ wpc = "recover" /\ \E i \in 1..Len(todo) : todo[i] = name
  /\ <<"underprocess", name>> \in PlacesOf(id)

\* The id-th file, found under this name, has been committed: it is in
\* processed/ (as <name>, or as <name>.dup next to an earlier <name>), with
\* processed/<name> and processed/<name>.out present and underprocess/ empty.
RecoveredAndCommitted(name, id) ==
  /\ PlacesOf(id) \in { {<<"processed", name>>}, {<<"processed", DupName(name)>>} }
  /\ name \in DOMAIN processed /\ OutName(name) \in DOMAIN processed
  /\ underprocess = EmptyDir

\* The run was cancelled or killed, or the monitor is at the bound on claims.
RunCutShort == mainpc # "waiting" \/ claims = MaxClaims

\* C20: when no move raises, recovery has emptied underprocess/ before any
\* file is claimed, so that underprocess/ then holds nothing but the claimed
\* file; and a file found in underprocess/ at startup, whose processing
\* succeeds, is eventually committed to processed/ with its .out there and
\* underprocess/ empty, unless the run is cut short.
C20_RecoveredThenProcessed ==
  /\ [](~faulty /\ wpc \in {"poll", "claim", "claimed", "process", "commit", "retry", "stopped"}
          => DOMAIN underprocess \subseteq {claimed})
  /\ \A name \in FileNames : \A id \in 1..MaxFiles :
        (~faulty /\ FoundAtStartup(name, id) /\ Succeeds(name))
           ~> (RecoveredAndCommitted(name, id) \/ RunCutShort)

\* The only file that arrived, x.txt, was claimed, left in underprocess/ by
\* the run that ended, found there by the next run and committed by it.
C20_Witness ==
  /\ ~faulty /\ runs = 2 /\ clock = 1 /\ claims = 2 /\ mainpc = "waiting"
  /\ RecoveredAndCommitted(<<"x.txt">>, 1)

\* The monitor's steps out of process_file that failed, and out of the retry
\* move.
FailStep == wpc = "process" /\ wpc' = "retry"
RetryStep == wpc = "retry" /\ wpc' = "claim"

\* C21: a failure of process_file, whatever was raised, is recorded in the
\* error ring under "file_processor" with the file's name and counted; when
\* the move does not raise, the file leaves underprocess/ for
\* unprocessed/<name>, or unprocessed/<name>.retry when <name> is there; and
\* the monitor goes on with its for loop.
C21_FailureRecordedAndRetried ==
  [][ /\ (wpc = "process" /\ (wpc' \notin {"process", "dead"}) /\ fault' # "none") => FailStep
      /\ FailStep =>
           /\ ms'.errors # <<>>
           /\ Last(ms'.errors).processor = "file_processor"
           /\ Last(ms'.errors).message = fault'
           /\ Last(ms'.errors).line_content = claimed
           /\ MetricsOf(ms', "file_processor").errors
                 = MetricsOf(ms, "file_processor").errors + 1
           /\ ms'.current_file = NoFile
      /\ (wpc = "retry" /\ (wpc' \notin {"retry", "dead"})) => RetryStep
      /\ (RetryStep /\ ~faulty) =>
           /\ claimed \notin DOMAIN underprocess'
           /\ IF claimed \in DOMAIN unprocessed
              THEN /\ Append(claimed, ".retry") \in DOMAIN unprocessed'
                   /\ unprocessed'[Append(claimed, ".retry")] = underprocess[claimed]
                   /\ unprocessed'[claimed] = unprocessed[claimed]
              ELSE /\ claimed \in DOMAIN unprocessed'
                   /\ unprocessed'[claimed] = underprocess[claimed] ]_vars

\* A file that failed was moved back as x.txt.retry, next to the x.txt that
\* had arrived meanwhile, and the monitor is in its for loop.
C21_Witness ==
  /\ wpc = "claim" /\ fault # "none"
  /\ <<"x.txt">> \in DOMAIN unprocessed
  /\ Append(<<"x.txt">>, ".retry") \in DOMAIN unprocessed
  /\ \E i \in 1..Len(ms.errors) : ms.errors[i].processor = "file_processor"

\* The monitor's steps out of process_file that succeeded, and out of the
\* commit move.
OkStep == wpc = "process" /\ wpc' = "commit"
CommitStep == wpc = "commit" /\ wpc' = "claim"

\* C22: when process_file succeeds nothing was raised, the lines the engine
\* yielded are in processed/<name>.out and the source is still in
\* underprocess/; the commit move, when it does not raise, takes the source
\* out of underprocess/ to processed/<name>, or to processed/<name>.dup when
\* processed/<name> is there, and leaves the output where it is.
C22_CommittedWithOutput ==
  [][ /\ (wpc = "process" /\ (wpc' \notin {"process", "dead"}) /\ fault' = "none") => OkStep
      /\ OkStep =>
           /\ fault' = "none"
           /\ Append(claimed, ".out") \in DOMAIN processed'
           /\ processed'[Append(claimed, ".out")] = OutputFile(output')
           /\ underprocess' = underprocess
           /\ ms'.last_processed_files # <<>> /\ Last(ms'.last_processed_files) = claimed
      /\ (wpc = "commit" /\ (wpc' \notin {"commit", "dead"})) => CommitStep
      /\ (CommitStep /\ ~faulty) =>
           /\ claimed \notin DOMAIN underprocess'
           /\ Append(claimed, ".out") \in DOMAIN processed'
           /\ processed'[Append(claimed, ".out")] = processed[Append(claimed, ".out")]
           /\ IF claimed \in DOMAIN processed
              THEN /\ Append(claimed, ".dup") \in DOMAIN processed'
                   /\ processed'[Append(claimed, ".dup")] = underprocess[claimed]
                   /\ processed'[claimed] = processed[claimed]
              ELSE /\ claimed \in DOMAIN processed'
                   /\ processed'[claimed] = underprocess[claimed] ]_vars

\* The second x.txt was processed and committed as x.txt.dup: its one line is
\* in x.txt.out and the monitor is back in its for loop.
C22_Witness ==
  /\ wpc = "claim" /\ fault = "none" /\ claimed = NoFile
  /\ Append(<<"x.txt">>, ".dup") \in DOMAIN processed
  /\ processed[Append(<<"x.txt">>, ".dup")].id = 2
  /\ Append(<<"x.txt">>, ".out") \in DOMAIN processed
  /\ processed[Append(<<"x.txt">>, ".out")].content = << <<"a">> >>

\* C23 as stated: once the event is set no further file is claimed, and the
\* return of main.run does not stop the monitor while it holds a file.
C23_StopObservedBetweenFiles ==
  [][ /\ ~(stop_event /\ wpc = "claim" /\ wpc' = "claimed")
      /\ ~(mainpc' = "returned" /\ (wpc \in {"claimed", "process", "commit", "retry"})
             /\ wpc' = "dead") ]_vars

\* Ring r2 is ring r after some appends to a ring of capacity max: what is
\* left of r in r2 is an end of r, in the same order and at the front of r2,
\* and an entry of r is missing only from a full ring.
RingAppended(r, r2, max) ==
  /\ Len(r2) <= max
  /\ \E j \in 0..Len(r) :
        /\ Len(r) - j <= Len(r2)
        /\ \A i \in 1..(Len(r) - j) : r2[i] = r[j + i]
        /\ (j > 0 => Len(r2) = max)

\* C24: the trace ring never holds more than max_traces entries and the error
\* ring never more than max_errors; in every step of a running process each
\* ring is what it was with entries appended, the oldest ones dropped only
\* from a full ring; and the entry recorded last is the last of its ring,
\* full or not.
C24_RingsBounded ==
  /\ [](Len(ms.traces) <= ms.max_traces /\ Len(ms.errors) <= ms.max_errors)
  /\ [][ /\ wpc' # "dead" =>
              /\ RingAppended(ms.traces, ms'.traces, ms.max_traces)
              /\ RingAppended(ms.errors, ms'.errors, ms.max_errors)
         /\ FailStep =>
              Last(ms'.errors) = [processor |-> "file_processor", message |-> fault',
                                  line_content |-> claimed] ]_vars

\* Both rings are full and have dropped entries: more errors were recorded
\* for the files than the error ring holds, and more traces were started
\* than the trace ring holds.
C24_Witness ==
  /\ Len(ms.errors) = ms.max_errors
  /\ MetricsOf(ms, "file_processor").errors > ms.max_errors
  /\ Len(ms.traces) = ms.max_traces
  /\ ms.line_counter > ms.max_traces


\* C25: for every stage tag, the invocation count, the error count and the
\* cumulative processing time kept by the store never decrease in any step of
\* a running process: building the routing table, running the engine over a
\* file, recording a failure, or any move of the daemon.
C25_CountersMonotone ==
  [][ (wpc' # "dead") =>
        \A tag \in DOMAIN ms.metrics :
           /\ tag \in DOMAIN ms'.metrics
           /\ ms'.metrics[tag].count >= ms.metrics[tag].count
           /\ ms'.metrics[tag].errors >= ms.metrics[tag].errors
           /\ ms'.metrics[tag].total_time >= ms.metrics[tag].total_time ]_vars

\* A stage that was invoked for several files and failed more than once.
C25_Witness ==
  /\ wpc # "dead"
  /\ \E tag \in DOMAIN ms.metrics :
        /\ ms.metrics[tag].count >= 3
        /\ ms.metrics[tag].errors >= 2
        /\ ms.metrics[tag].total_time >= 2
  /\ \E tag \in DOMAIN ms.metrics : tag # "file_processor" /\ ms.metrics[tag].errors = 0


\* C26: when the run has returned, the count get_stats reports for a
\* LineCounter stage equals the number of lines that were dispatched to it.
C26_CountIsLinesDispatched ==
  Returned =>
    \A tag \in DOMAIN nodes :
       TypeOf(tag) = "LineCounter" =>
          get_stats(ms)[tag].count = Len(SelectLines(called, tag))


\* The node tags other than `tag` whose processor is of the same class.
SameClassNodes(tag) ==
  { u \in DOMAIN nodes : u # tag /\ IsClass(TypeOf(tag)) /\ TypeOf(u) = TypeOf(tag) }

\* C27: two nodes with different tags whose type names the same class have
\* different instances, and a call of one leaves the other's instance (its
\* internal state) and the other's metrics as they were.
C27_ClassInstancesIndependent ==
  /\ [](\A t \in DOMAIN nodes : \A u \in SameClassNodes(t) :
           nodes[u].processor # nodes[t].processor)
  /\ [][ (called' # called) =>
           \A u \in SameClassNodes(Last(called').tag) :
              /\ procs'[nodes[u].processor] = procs[nodes[u].processor]
              /\ MetricsOf(ms', u) = MetricsOf(ms, u) ]_vars

\* Both LineCounter stages were called for each of two lines, and each
\* numbered its own lines 1 and 2.
C27_Witness ==
  /\ Returned /\ Len(input) = 2
  /\ {"c1", "c2"} \subseteq DOMAIN nodes
  /\ \A t \in {"c1", "c2"} :
        /\ procs[nodes[t].processor].count = 2
        /\ Len(SelectLines(called, t)) = 2
        /\ "c2" \in SameClassNodes("c1")
  /\ \E k \in 1..Len(output) : Head(output[k]) = "2"


\* C28: with tracing enabled no more traces are created than there are input
\* lines, and every trace in the ring is the journey of an input line: it
\* holds that line as its original content, and one step per stage traversed,
\* from the start stage to `end`.
C28_OneTracePerLine ==
  ms.trace_enabled =>
    /\ ms.line_counter <= Len(input)
    /\ \A k \in 1..Len(ms.traces) :
          LET t == ms.traces[k]
          IN  /\ \E n \in 1..Len(input) : t.original_content = input[n]
              /\ Len(t.steps) = Len(t.path)
              /\ t.path # <<>>
              /\ Head(t.path) = StartTag(config)
              /\ Last(t.path) = "end"


\* The requests a client makes of /trace.
TraceLimits == 1..(MaxTraces + 1)
Searches == { <<>>, <<"A">>, <<"b">>, <<",", " ">> }
StageFilters == {"", "start", "end"}
TagFilters == {"", "end", "uppercase"}

\* Whether a trace satisfies every filter that was supplied.
Satisfies(t, search, stage, tag) ==
  /\ search # <<>> =>
        \E content \in {t.original_content, t.final_content}
                       \cup { t.steps[i].input_content : i \in 1..Len(t.steps) }
                       \cup { t.steps[i].output_content : i \in 1..Len(t.steps) } :
           StrIn(lower(search), lower(content))
  /\ stage # "" => \E i \in 1..Len(t.path) : t.path[i] = stage
  /\ tag # "" => \E i \in 1..Len(t.steps) : ListIn(tag, t.steps[i].output_tags)

\* The positions in the ring of the at most `limit` most recent traces that
\* satisfy the filters.
MostRecent(limit, search, stage, tag) ==
  LET M == { k \in 1..Len(ms.traces) : Satisfies(ms.traces[k], search, stage, tag) }
  IN  { k \in M : Cardinality({ j \in M : j > k }) < limit }

\* Whether r lists the traces at the positions K of the ring, oldest first.
ListsOldestFirst(r, K) ==
  /\ Len(r) = Cardinality(K)
  /\ \A i \in 1..Len(r) :
        LET k == CHOOSE k \in K : Cardinality({ j \in K : j < k }) = i - 1
        IN  /\ r[i].line_id = ms.traces[k].line_id
            /\ r[i].original_content = ms.traces[k].original_content
            /\ r[i].final_content = ms.traces[k].final_content
            /\ r[i].path = ms.traces[k].path

\* C30: for every limit >= 1, search, stage filter and tag filter, get_traces
\* returns, oldest first, the at most `limit` most recent traces of the ring
\* among those that satisfy every supplied filter.
C30_GetTracesFiltersThenLimits ==
  \A limit \in TraceLimits : \A search \in Searches :
     \A stage \in StageFilters : \A tag \in TagFilters :
        ListsOldestFirst(get_traces(ms, limit, search, stage, tag),
                         MostRecent(limit, search, stage, tag))

\* The ring holds two traces; a search in the other case finds both, and with
\* a stage filter and limit 1 the older one is the one returned.
C30_Witness ==
  /\ Len(ms.traces) = 2
  /\ Len(get_traces(ms, 2, <<"A">>, "", "")) = 2
  /\ ms.traces[1].original_content = <<"a">>
  /\ Len(get_traces(ms, 1, <<"A">>, "start", "uppercase")) = 1
  /\ get_traces(ms, 1, <<"A">>, "start", "uppercase")[1].line_id = ms.traces[1].line_id
  /\ get_traces(ms, 1, <<>>, "", "")[1].line_id = ms.traces[2].line_id


\* Whether a thread is inside a `with self.mutex` block.
Inside(t) == threads[t].pc \in {"holding", "loaded", "stored"}

\* How many calls of a method have written their update: the finished calls
\* of every writer, and the call of a writer that has written and not yet
\* returned.
Applied(op) ==
  LET F[S \in SUBSET Writers] ==
        IF S = {} THEN 0
        ELSE LET t == CHOOSE t \in S : TRUE
             IN  threads[t].done[op]
                 + (IF threads[t].pc = "stored" /\ threads[t].op = op THEN 1 ELSE 0)
                 + F[S \ {t}]
  IN  F[Writers]

AtMost(n, max) == IF n > max THEN max ELSE n

\* No update of the store is lost: every counter and ring holds what the
\* recording calls made so far amount to.
NoLostUpdate ==
  /\ MetricsOf(ms, MeteredTag).count = Applied("record_metrics")
  /\ MetricsOf(ms, MeteredTag).errors = Applied("record_metrics") + Applied("record_error")
  /\ MetricsOf(ms, MeteredTag).total_time = ExecutionTime * Applied("record_metrics")
  /\ Len(ms.errors) = AtMost(Applied("record_error"), ms.max_errors)
  /\ ms.line_counter = Applied("start_trace")
  /\ Len(ms.traces) = AtMost(Applied("complete_trace"), ms.max_traces)
  /\ \A t, u \in Writers : t # u /\ threads[t].line_id # 0 =>
        threads[t].line_id # threads[u].line_id

\* C29: the store changes only in a step of the thread that holds its lock,
\* at most one thread is inside a locked block, no update is lost, and what
\* get_stats, get_traces and get_errors returned was taken while holding the
\* lock, is what the store held then, and is not changed by later writes.
C29_LockedUpdatesAndCopies ==
  /\ [](\A t \in Threads : Inside(t) => mutex = t)
  /\ [](NoLostUpdate)
  /\ [][ (ms' # ms) =>
           /\ \E t \in Writers : mutex = t /\ threads[t].pc = "loaded"
                                 /\ threads'[t].pc = "stored"
           /\ \A t \in Threads : threads'[t].view = threads[t].view ]_vars
  /\ [][ \A t \in Readers :
           (threads'[t].pc = "stored" /\ threads[t].pc # "stored") =>
              /\ mutex = t /\ (ms' = ms)
              /\ LET view == threads'[t].view
                 IN  CASE view.op = "get_stats" -> view.value = get_stats(ms)
                       [] view.op = "get_traces" ->
                            \E limit \in 1..MaxTraces :
                               view.value = get_traces(ms, limit, <<>>, "", "")
                       [] view.op = "get_errors" ->
                            \E limit \in 1..MaxTraces :
                               view.value = get_errors(ms, limit) ]_vars

\* The dashboard holds the statistics it was given after the first recording,
\* and both writers have recorded since: the store counts four executions.
C29_Witness ==
  /\ threads # <<>>
  /\ threads["dashboard"].view.op = "get_stats"
  /\ MeteredTag \in DOMAIN threads["dashboard"].view.value
  /\ threads["dashboard"].view.value[MeteredTag].count = 1
  /\ MetricsOf(ms, MeteredTag).count = 4
  /\ \A t \in Writers : threads[t].done["record_metrics"] = 2


\* What run_router yields for a config and the lines of a file when nothing
\* was run before: the processors as imported, an empty store, no tracing.
FirstRunOutput(cfg, lines) ==
  process_file_try(cfg, lines, ModuleInstances, MetricsStore(MaxTraces, MaxErrors, FALSE),
                   MaxHops, NoInstance).output

\* C31: whenever a file is processed with success, the <name>.out written is
\* what the config and the file's lines give on a first run, whatever was run
\* before; and when the file of that name was processed with success before,
\* the <name>.out that was there is replaced by one of the same content.
C31_SameOutputEveryRun ==
  [][ OkStep =>
        /\ processed'[OutName(claimed)] =
              OutputFile(FirstRunOutput(config, underprocess[claimed].content))
        /\ ListIn(claimed, ms.last_processed_files) =>
              /\ OutName(claimed) \in DOMAIN processed
              /\ processed'[OutName(claimed)] = processed[OutName(claimed)] ]_vars

\* The file x.txt was processed twice by the same process, with success, and
\* its output file holds one run's output.
C31_Witness ==
  /\ ms.last_processed_files = << <<"x.txt">>, <<"x.txt">> >>
  /\ OutName(<<"x.txt">>) \in DOMAIN processed
  /\ processed[OutName(<<"x.txt">>)].content # <<>>
  /\ processed[OutName(<<"x.txt">>)].content =
        FirstRunOutput(config, FileContent(<<"x.txt">>))
  /\ DupName(<<"x.txt">>) \in DOMAIN processed


\* Whether a sequence of numbers never goes down.
NonDecreasing(h) == \A i \in 1..(Len(h) - 1) : h[i] <= h[i + 1]

\* The hops of the envelopes that were taken from the queue with tag `end`,
\* in the order they were taken: one per line of output.
EndHops == HopsOf(SelectSeq(popped, IsEnd))

\* C32: the hops of the envelopes in the work queue never go down from head to
\* tail and differ by at most 1, and the lines are output in non-decreasing
\* order of the hops they took to reach `end`.
C32_BreadthFirstLevels ==
  /\ NonDecreasing(HopsOf(pending))
  /\ pending # <<>> => Last(pending).hops - Head(pending).hops <= 1
  /\ Len(EndHops) = Len(output)
  /\ NonDecreasing(EndHops)

\* Two lines each reached `end` after one hop and again after two: the two
\* one-hop copies were output first.
C32_Witness ==
  /\ Returned
  /\ EndHops = <<1, 1, 2, 2>>
  /\ output[1] # output[2] /\ output[1] = output[3]


\* C33: when the envelope at the head of the queue is tagged `end`, the
\* iteration that takes it emits its line to the output and the loop goes on,
\* whatever its hops; a hop-limit error is never raised for such an envelope.
C33_EndPrecedesHopLimit ==
  /\ [][ (pc = "routing" /\ pending # <<>> /\ IsEnd(Head(pending))
           /\ popped' # popped) =>
            /\ output' = Append(output, Head(pending).line)
            /\ pending' = Tail(pending)
            /\ pc' = "routing" /\ (fault' = fault)
            /\ ms'.errors = ms.errors ]_vars
  /\ [](fault = "hop_limit" /\ popped # <<>> => ~IsEnd(Last(popped)))

\* A line reached `end` with hops = max_hops + 1 and was output; the run
\* returned.
C33_Witness ==
  /\ Returned /\ fault = "none" /\ output # <<>>
  /\ \E i \in 1..Len(popped) : IsEnd(popped[i]) /\ popped[i].hops = max_hops + 1
  /\ Len(EndHops) = Len(input) /\ input # <<>>


\* C34: as long as the error ring has not overflowed, the errors counter that
\* get_stats reports for a tag equals the number of entries of the ring
\* recorded under that tag.
C34_ErrorsCounterMatchesRing ==
  Len(ms.errors) < ms.max_errors =>
    \A tag \in DOMAIN get_stats(ms) :
       get_stats(ms)[tag].errors = CountProcessor(get_errors(ms, ms.max_errors), tag)


\* The trace ids in the ring.
RingIds(store) == { store.traces[k].line_id : k \in 1..Len(store.traces) }

\* C35: the ids in the ring are all different and none of them is in the
\* in-flight map; an id enters the in-flight map only as a new id, and enters
\* the ring only as a new id or by leaving the in-flight map; and an envelope
\* tagged `end`
\* whose trace id is no longer in flight leaves the ring and the map as they
\* are.
C35_TraceCompletedOnce ==
  /\ [](/\ Cardinality(RingIds(ms)) = Len(ms.traces)
        /\ RingIds(ms) \cap DOMAIN ms.active_traces = {})
  /\ [][ /\ \A id \in (DOMAIN ms'.active_traces) \ (DOMAIN ms.active_traces) :
               id > ms.line_counter /\ id <= ms'.line_counter
         /\ \A id \in RingIds(ms') \ RingIds(ms) :
               \/ id \in DOMAIN ms.active_traces
               \/ id > ms.line_counter /\ id <= ms'.line_counter
         /\ ms'.line_counter >= ms.line_counter
         /\ (pc = "routing" /\ pending # <<>> /\ IsEnd(Head(pending))
              /\ popped' # popped
              /\ Head(pending).line_id \notin DOMAIN ms.active_traces) =>
                (ms'.traces = ms.traces /\ ms'.active_traces = ms.active_traces) ]_vars

\* Two copies of a line that share a trace id were taken from the queue with
\* tag `end`, and the ring holds one trace of that id.
C35_Witness ==
  /\ Returned /\ ms.trace_enabled
  /\ \E i, j \in 1..Len(popped) :
        /\ i < j /\ IsEnd(popped[i]) /\ IsEnd(popped[j])
        /\ popped[i].line_id # 0 /\ popped[i].line_id = popped[j].line_id
        /\ popped[i].line_id \in RingIds(ms)
        /\ Cardinality({ k \in 1..Len(ms.traces) :
                           ms.traces[k].line_id = popped[i].line_id }) = 1


\* C36: while current_file is set the monitor is inside process_file on the
\* claimed file, which has that name and lies in underprocess/; and whenever
\* process_file returns, with True or with False, current_file is null, so
\* that the move out of underprocess/ finds it null.
C36_CurrentFileIsUnderProcess ==
  /\ [](ms.current_file # NoFile =>
          /\ wpc = "process"
          /\ claimed = ms.current_file
          /\ claimed \in DOMAIN underprocess
          /\ underprocess[claimed].kind = "source")
  /\ [](wpc \in {"commit", "retry"} => ms.current_file = NoFile)
  /\ [][(wpc = "process" /\ wpc' # "process") => ms'.current_file = NoFile]_vars

\* process_file is at work on a claimed file.
C36_Witness ==
  /\ wpc = "process" /\ ms.current_file # NoFile
  /\ ms.current_file = claimed /\ claimed \in DOMAIN underprocess


\* The source files of a directory, and their number over the three
\* directories.
SourcesIn(dir) == { n \in DOMAIN dir : dir[n].kind = "source" }
SourceCount ==
  Cardinality(SourcesIn(unprocessed)) + Cardinality(SourcesIn(underprocess))
    + Cardinality(SourcesIn(processed))

\* C37: no step of the daemon (recovery, claim, commit, retry) lowers the
\* number of source files held by the three directories together.
C37_NoMoveDestroysSource ==
  [][SourceCount' >= SourceCount]_vars


\* C38: when process_file returns True, processed/<name>.out holds all the
\* lines the run put out; when it returns False, processed/ holds no
\* <name>.out that was not there before the attempt, and one that was there is
\* as it was.
C38_OutputOnlyOnSuccess ==
  [][ /\ (wpc = "process" /\ wpc' = "commit") =>
            \E r \in Processing :
               /\ r.fault = "none"
               /\ OutName(claimed) \in DOMAIN processed'
               /\ processed'[OutName(claimed)] = OutputFile(r.output)
      /\ (wpc = "process" /\ wpc' = "retry") =>
            IF OutName(claimed) \in DOMAIN processed
            THEN processed' = processed
            ELSE OutName(claimed) \notin DOMAIN processed' ]_vars


\* The single-file run is over: run_router returned, or the error it raised
\* left main.run.
Terminated == pc \in {"done", "exit_error"}

\* C39: every run reaches its end, with the queue drained or with an error
\* raised, and no stage is invoked on an envelope of more than max_hops
\* hops, so that a path has at most max_hops + 1 stage invocations.
C39_RouterTerminates ==
  /\ <>Terminated
  /\ [](pc = "done" => pending = <<>>)
  /\ [](pc = "exit_error" => fault # "none")
  /\ [](\A i \in 1..Len(called) : called[i].hops <= max_hops)

\* A line went round a cycle until the hop limit cut it, after max_hops + 1
\* stage invocations, and the run ended with the error.
C39_Witness ==
  /\ pc = "exit_error" /\ fault = "hop_limit" /\ max_hops >= 1
  /\ Len(input) = 1
  /\ Len(called) = max_hops + 1
  /\ \A h \in 0..max_hops : \E i \in 1..Len(called) : called[i].hops = h


\* The id-th file that arrived lies in unprocessed/ under this name.
Placed(name, id) == <<"unprocessed", name>> \in PlacesOf(id)

\* The id-th file, placed under this name, is in processed/ (as <name>, or as
\* <name>.dup next to an earlier <name>) and processed/<name>.out is there.
MovedToProcessed(name, id) ==
  /\ PlacesOf(id) \in { {<<"processed", name>>}, {<<"processed", DupName(name)>>} }
  /\ OutName(name) \in DOMAIN processed
  /\ processed[OutName(name)].kind = "output"

\* The monitor's steps into a pass over the candidates, and from a file back
\* to the for loop.
ListStep == wpc = "poll" /\ wpc' = "claim"
NextCandidateStep == wpc \in {"commit", "retry"} /\ wpc' = "claim"

\* C40: with a monitor thread that keeps being scheduled and moves that do
\* not raise, in a daemon that has not been cancelled or killed, a file that
\* lies in unprocessed/ and whose processing succeeds is eventually in
\* processed/ with its .out, unless the run is cut short; a pass lists every
\* file of unprocessed/, and a file that failed and was moved back takes no
\* candidate from the rest of the pass.  (What the recovery of a restarted
\* daemon does to a file placed meanwhile is C37.)
C40_SucceedingFileIsProcessed ==
  /\ \A name \in FileNames : \A id \in 1..MaxFiles :
        (runs = 1 /\ Placed(name, id) /\ Succeeds(name))
           ~> (MovedToProcessed(name, id) \/ RunCutShort)
  /\ [][ /\ ListStep => \A n \in DOMAIN unprocessed : \E i \in 1..Len(todo') : todo'[i] = n
         /\ NextCandidateStep => todo' = todo ]_vars

\* x.txt, the older file, has failed twice and lies in unprocessed/ again,
\* and y.txt, which arrived after it, is in processed/ with its .out.
C40_Witness ==
  /\ mainpc = "waiting" /\ runs = 1 /\ clock = 2
  /\ MetricsOf(ms, "file_processor").errors = 2
  /\ Placed(<<"x.txt">>, 1)
  /\ MovedToProcessed(<<"y.txt">>, 2)

====
